---- MODULE Spec2Model ----
(***************************************************************************)
(* Model of src/src/agent/lsp.py: JSONRPCClient, a JSON-RPC-over-stdio     *)
(* client.  Caller threads run send_request / send_notification, a control *)
(* thread runs start() / stop(), every start() launches a reader thread    *)
(* running _read_loop, and every child process is a server that may emit   *)
(* any frames and may exit at any time.                                    *)
(*                                                                         *)
(* A step of the model is one access to state that another thread can see: *)
(* an attribute read of self.process / self.running, a write to a pipe, a  *)
(* read from a pipe, a lock acquisition, or the body of a `with self.lock` *)
(* block (which only touches request_id and pending_requests, the state    *)
(* the lock protects).  Thread-local statements are folded into the        *)
(* neighbouring step.                                                      *)
(*                                                                         *)
(* The unit of a pipe's content is one line (with its terminator) or one   *)
(* message body; Content-Length counts bodies in that unit.                *)
(***************************************************************************)
EXTENDS Integers, Sequences, FiniteSets, TLC

\* Bounds of the model.
NCallers == 2
MaxStarts == 2
MaxFrames == 2
MaxPipeFrames == 1
\* Bounds of the lifecycle specification.
LifeCallers == 1
LifeFrames == 1

Callers == 1 .. NCallers
Procs == 1 .. MaxStarts
Readers == 1 .. MaxStarts
\* Ids a server may name in a frame: those the callers can be given.
Ids == 0 .. (NCallers - 1)

\* Python's None, as the value of self.process, of a missing id, of a JSON null.
None == 0
NoId == -1

VARIABLES
    process,            \* self.process: None or the handle of a child (its number)
    running,            \* self.running
    request_id,         \* self.request_id
    pending_requests,   \* self.pending_requests: id -> the caller owning (future, container)
    lock,               \* self.lock: 0 when free, else the thread holding it
    cpc,                \* caller: position in send_request / send_notification
    cop,                \* caller: "request" or "notify"
    req_id,             \* caller: local req_id (NoId before allocation)
    future,             \* caller's threading.Event: its flag
    container,          \* caller's result_container: set of <<key, value>>
    outcome,            \* caller: what the call returned or raised
    mpc,                \* control thread: position in start() / stop()
    nstarts,            \* number of Popen calls made so far
    rpc,                \* reader thread: position in _read_loop
    rstream,            \* reader: the stdout it is blocked reading (a process)
    rpart,              \* reader: readline has consumed text without a newline yet
    rlen,               \* reader: local `length`
    rmsg,               \* reader: local `message`
    rexit,              \* reader: why the loop ended
    pstate,             \* child process: "none", "up", "exited"
    sin,                \* child stdin: the chunks written to it, in order
    sout,               \* child stdout: the units not yet read
    nframes,            \* frames emitted so far by all servers (serial numbers)
    released,           \* history: caller -> the messages that set its future, in order
    dropped,            \* history: the messages that found no pending entry, and why
    signalled,          \* history: the children terminate() was called on, in order
    ipc,                \* LSPClient.initialize: position of the thread running it
    ichild,             \* LSPClient.initialize: the number of children when it was entered
    capabilities,       \* LSPClient: self.capabilities
    ioutcome,           \* LSPClient.initialize: what the last call returned or raised
    message,            \* codec: the dict handed to _send
    wire,               \* codec: the Content-Length written and the body bytes written
    decoded,            \* codec: what the read side made of those bytes
    query,              \* facade query: the method called and its (line, character)
    request,            \* facade query: the params of the Request it sent
    reading,            \* child process: it is still reading its stdin
    sinroom,            \* child stdin: the chunks the pipe can still take unread
    framed,             \* framing: the frame a server wrote last, its message and shape
    owed,               \* framing: the part of that frame's body not written yet
    hresult,            \* hover: the result send_request returned
    hreturn,            \* hover: what hover returned or raised
    manager             \* LSPManager: its settings, self.client, self.tools, and the call in progress

vars == << process, running, request_id, pending_requests, lock,
           cpc, cop, req_id, future, container, outcome,
           mpc, nstarts,
           rpc, rstream, rpart, rlen, rmsg, rexit,
           pstate, sin, sout, nframes, released, dropped,
           signalled, ipc, ichild, capabilities, ioutcome,
           message, wire, decoded, query, request,
           reading, sinroom, framed, owed, hresult, hreturn, manager >>

clientVars == << process, running, request_id, pending_requests, lock >>
callerVars == << cpc, cop, req_id, future, container, outcome >>
mainVars   == << mpc, nstarts >>
readerVars == << rpc, rstream, rpart, rlen, rmsg, rexit >>
serverVars == << pstate, sin, sout, nframes >>
facadeVars == << ipc, ichild, capabilities, ioutcome >>
codecVars  == << message, wire, decoded >>
queryVars  == << query, request >>
pipeVars   == << reading, sinroom >>
frameVars  == << framed, owed >>
hoverVars  == << hresult, hreturn >>
moreVars   == << pipeVars, frameVars, hoverVars, manager >>
\* What the JSON-RPC client's own steps, other than stop(), leave alone.
restVars   == << signalled, facadeVars, codecVars, queryVars, moreVars >>

\* Thread identities, as holders of the lock.
CallerTid(c) == c
ReaderTid(r) == NCallers + r

----------------------------------------------------------------------------
\* Wire units.

Unit(t, id, kind, val) == [t |-> t, id |-> id, kind |-> kind, val |-> val]
\* "Content-Length: <n>\r\n"; n = -1 stands for a non-numeric value.
HeaderLine(n) == Unit("CL", NoId, "", n)
\* "\r\n"
BlankLine == Unit("blank", NoId, "", 0)
\* The result or error payload a server puts in its Response to request `id`:
\* the client never looks into it, so one value per id is enough to tell
\* whose answer a caller got.
Payload(id) == id + 1
\* A JSON object: kind "result" {id, result}, "error" {id, error},
\* "request" {id, method, params}, "notify" {method, params}.
Msg(id, kind) == Unit("msg", id, kind, IF kind \in { "result", "error" } THEN Payload(id) ELSE None)
\* Text that is not JSON.
Junk == Unit("junk", NoId, "", 0)
\* A header line that is not Content-Length, such as "Content-Type: ...\r\n".
OtherLine == Unit("other", NoId, "", 0)
\* The first (n = 1) or the second (n = 2) half of the JSON text of message m.
Half(m, n) == [t |-> "half", id |-> m.id, kind |-> m.kind, val |-> n]
NoMsg == Unit("none", NoId, "", 0)

\* What a call returned or raised.
Out(kind, val) == [kind |-> kind, val |-> val]
NoOutcome == Out("none", 0)

----------------------------------------------------------------------------
\* JSONRPCClient.__init__, before any thread has run.
InitClient ==
    /\ process = None
    /\ running = FALSE
    /\ request_id = 0
    /\ pending_requests = {}
    /\ lock = 0
    /\ cpc = [c \in Callers |-> "idle"]
    /\ cop = [c \in Callers |-> "none"]
    /\ req_id = [c \in Callers |-> NoId]
    /\ future = [c \in Callers |-> FALSE]
    /\ container = [c \in Callers |-> {}]
    /\ outcome = [c \in Callers |-> NoOutcome]
    /\ mpc = "idle"
    /\ nstarts = 0
    /\ rpc = [r \in Readers |-> "off"]
    /\ rstream = [r \in Readers |-> None]
    /\ rpart = [r \in Readers |-> FALSE]
    /\ rlen = [r \in Readers |-> 0]
    /\ rmsg = [r \in Readers |-> NoMsg]
    /\ rexit = [r \in Readers |-> "none"]
    /\ pstate = [p \in Procs |-> "none"]
    /\ sin = [p \in Procs |-> << >>]
    /\ sout = [p \in Procs |-> << >>]
    /\ nframes = 0
    /\ released = [c \in Callers |-> << >>]
    /\ dropped = {}
    /\ signalled = << >>

\* self.capabilities = {} (line 129); no call of initialize() yet.
NoCapabilities == 0
InitFacade ==
    /\ ipc = "idle"
    /\ ichild = 0
    /\ capabilities = NoCapabilities
    /\ ioutcome = NoOutcome

\* Nothing handed to _send, nothing written, nothing read back.
Nothing == [t |-> "nothing"]
IdleCodec ==
    /\ message = Nothing
    /\ wire = Nothing
    /\ decoded = Nothing
\* No facade query made.
IdleQuery ==
    /\ query = Nothing
    /\ request = Nothing

\* The pipe to a child's stdin holds StdinRoom chunks that the child has not
\* read; a child reads its stdin until it stops doing so.
StdinRoom == 1
IdlePipes ==
    /\ reading = [p \in Procs |-> TRUE]
    /\ sinroom = [p \in Procs |-> StdinRoom]
\* No frame written by a server whose shape is on record.
IdleFrames ==
    /\ framed = Nothing
    /\ owed = << >>
\* No hover result handled.
IdleHover ==
    /\ hresult = Nothing
    /\ hreturn = Nothing
\* LSPManager.__init__ (lsp_manager.py lines 9-12) with the settings given:
\* no client, no tools, no call made.
NewManager(enabled) ==
    [ lsp_enabled |-> enabled, client |-> None, tools |-> {},
      pc |-> "new", failed |-> FALSE, tool |-> "", returned |-> NoOutcome ]
\* No LSPManager in use.
IdleManager == manager = NewManager(FALSE)
IdleMore == IdlePipes /\ IdleFrames /\ IdleHover /\ IdleManager

Init == InitClient /\ InitFacade /\ IdleCodec /\ IdleQuery /\ IdleMore

----------------------------------------------------------------------------
\* self.pending_requests, a dict, as the set of its <<key, owner>> items.

PendingIds(p) == { e[1] : e \in p }
\* key in self.pending_requests
Contains(p, id) == id \in PendingIds(p)
\* A lookup that takes the first pending entry, whatever its key.
LookupFirst(p, id) == CHOOSE c \in Callers : \E e \in p : e[2] = c
\* self.pending_requests[key]
Lookup(p, id) == CHOOSE c \in Callers : << id, c >> \in p
\* A registration that stores nothing.
StoreNothing(p, id, c) == p
\* self.pending_requests[key] = value
Store(p, id, c) == { e \in p : e[1] # id } \cup { << id, c >> }
\* A `del` that removes nothing.
DeleteNothing(p, id) == p
\* del self.pending_requests[key]
Delete(p, id) == { e \in p : e[1] # id }

\* An id counter that is not advanced.
SameRequestId(n) == n
\* self.request_id += 1
NextRequestId(n) == n + 1

----------------------------------------------------------------------------
\* Caller threads: send_request (lines 37-65), send_notification (67-73),
\* _send (75-84).

\* A thread calls send_request: it goes for the lock of line 38.
CallRequest(c) ==
    /\ cpc[c] = "idle"
    /\ cpc' = [cpc EXCEPT ![c] = "alloc_lock"]
    /\ cop' = [cop EXCEPT ![c] = "request"]
    /\ UNCHANGED << clientVars, req_id, future, container, outcome,
                    mainVars, readerVars, serverVars, released, dropped, restVars >>

\* A send_notification that takes an id first, as send_request does.
NotificationEntryAllocates == "alloc_lock"
\* Lines 68-73: send_notification builds a message with no "id" key and goes
\* straight into _send; it touches neither the lock, the counter nor the map.
NotificationEntry == "send_check"

\* A thread calls send_notification: it builds the message and enters _send.
CallNotification(c) ==
    /\ cpc[c] = "idle"
    /\ cpc' = [cpc EXCEPT ![c] = NotificationEntry]
    /\ cop' = [cop EXCEPT ![c] = "notify"]
    /\ UNCHANGED << clientVars, req_id, future, container, outcome,
                    mainVars, readerVars, serverVars, released, dropped, restVars >>

\* A with-block that leaves the lock with the thread that took it.
LockKept(t) == t
\* The end of a `with self.lock:` block (lines 40, 53, 59, 119): release.
LockReleased(t) == 0

\* `with self.lock:` at lines 38, 52 and 58: acquire.
CallerAcquire(c) ==
    /\ cpc[c] \in { "alloc_lock", "register_lock", "timeout_lock" }
    /\ lock = 0
    /\ lock' = CallerTid(c)
    /\ cpc' = [cpc EXCEPT ![c] =
                 CASE cpc[c] = "alloc_lock" -> "alloc"
                   [] cpc[c] = "register_lock" -> "register"
                   [] OTHER -> "timeout_del"]
    /\ UNCHANGED << process, running, request_id, pending_requests,
                    cop, req_id, future, container, outcome,
                    mainVars, readerVars, serverVars, released, dropped, restVars >>

\* Lines 39-40 and the release; lines 42-50 are local.
AllocateId(c) ==
    /\ cpc[c] = "alloc"
    /\ lock = CallerTid(c)
    /\ req_id' = [req_id EXCEPT ![c] = request_id]
    /\ request_id' = NextRequestId(request_id)
    /\ lock' = LockReleased(CallerTid(c))
    /\ cpc' = [cpc EXCEPT ![c] = "register_lock"]
    /\ UNCHANGED << process, running, pending_requests,
                    cop, future, container, outcome,
                    mainVars, readerVars, serverVars, released, dropped, restVars >>

\* Line 53 and the release.
Register(c) ==
    /\ cpc[c] = "register"
    /\ lock = CallerTid(c)
    /\ pending_requests' = Store(pending_requests, req_id[c], c)
    /\ lock' = LockReleased(CallerTid(c))
    /\ cpc' = [cpc EXCEPT ![c] = "send_check"]
    /\ UNCHANGED << process, running, request_id,
                    cop, req_id, future, container, outcome,
                    mainVars, readerVars, serverVars, released, dropped, restVars >>

\* Where a call goes when _send returns: a request waits, a notification is done.
AfterSend(c) == IF cop[c] = "request" THEN "wait" ELSE "done"
SentOutcome(c) == IF cop[c] = "request" THEN outcome[c] ELSE Out("returned", 0)

\* Line 78: `if self.process and self.process.stdin`.
SendCheck(c) ==
    /\ cpc[c] = "send_check"
    /\ IF process # None
         THEN /\ cpc' = [cpc EXCEPT ![c] = "send_header"]
              /\ outcome' = outcome
         ELSE /\ cpc' = [cpc EXCEPT ![c] = AfterSend(c)]
              /\ outcome' = [outcome EXCEPT ![c] = SentOutcome(c)]
    /\ UNCHANGED << clientVars, cop, req_id, future, container,
                    mainVars, readerVars, serverVars, released, dropped, restVars >>

\* One chunk of a frame as written to a child's stdin.
Chunk(part, c) == [part |-> part, by |-> c, id |-> req_id[c]]

\* Lines 80, 81: self.process.stdin.write(...).  self.process is read again:
\* None raises AttributeError, which _send does not catch; a child that has
\* exited raises BrokenPipeError, which it swallows, skipping the rest.
\* An except clause that lets the error out of _send.
OnBrokenPipeRaises(c) == [pc |-> "done", out |-> Out("BrokenPipeError", 0)]
\* Lines 83-84: `except BrokenPipeError: pass`; _send returns.
OnBrokenPipe(c) == [pc |-> AfterSend(c), out |-> SentOutcome(c)]

\* A write to the stdin of child p returns once the pipe has taken the data:
\* at once while the child reads, and while there is room in the pipe; the
\* pipe is blocking (no timeout, no O_NONBLOCK), so otherwise write() waits.
CanWrite(p) == reading[p] \/ sinroom[p] > 0

SendWrite(c) ==
    /\ cpc[c] \in { "send_header", "send_body" }
    /\ IF process = None
         THEN /\ cpc' = [cpc EXCEPT ![c] = "done"]
              /\ outcome' = [outcome EXCEPT ![c] = Out("AttributeError", 0)]
              /\ UNCHANGED << sin, sinroom >>
         ELSE IF pstate[process] = "exited"
         THEN /\ cpc' = [cpc EXCEPT ![c] = OnBrokenPipe(c).pc]
              /\ outcome' = [outcome EXCEPT ![c] = OnBrokenPipe(c).out]
              /\ UNCHANGED << sin, sinroom >>
         ELSE /\ CanWrite(process)
              /\ cpc' = [cpc EXCEPT ![c] =
                          IF cpc[c] = "send_header" THEN "send_body" ELSE "send_flush"]
              /\ outcome' = outcome
              /\ sin' = [sin EXCEPT ![process] =
                          Append(@, Chunk(IF cpc[c] = "send_header" THEN "header" ELSE "body", c))]
              /\ sinroom' = IF reading[process] THEN sinroom
                            ELSE [sinroom EXCEPT ![process] = @ - 1]
    /\ UNCHANGED << clientVars, cop, req_id, future, container,
                    mainVars, readerVars, pstate, sout, nframes, released, dropped,
                    signalled, facadeVars, codecVars, queryVars, reading, frameVars, hoverVars, manager >>

\* Line 82: self.process.stdin.flush(); nothing is buffered (bufsize=0).
SendFlush(c) ==
    /\ cpc[c] = "send_flush"
    /\ IF process = None
         THEN /\ cpc' = [cpc EXCEPT ![c] = "done"]
              /\ outcome' = [outcome EXCEPT ![c] = Out("AttributeError", 0)]
         ELSE /\ cpc' = [cpc EXCEPT ![c] = AfterSend(c)]
              /\ outcome' = [outcome EXCEPT ![c] = SentOutcome(c)]
    /\ UNCHANGED << clientVars, cop, req_id, future, container,
                    mainVars, readerVars, serverVars, released, dropped, restVars >>

\* result_container.get("result"): the value stored, or None.
GetResult(cont) ==
    IF \E e \in cont : e[1] = "result"
      THEN (CHOOSE e \in cont : e[1] = "result")[2]
      ELSE None
GetError(cont) == (CHOOSE e \in cont : e[1] = "error")[2]

\* Lines 57, 62-65: future.wait returned True.
WaitReleased(c) ==
    /\ cpc[c] = "wait"
    /\ future[c]
    /\ cpc' = [cpc EXCEPT ![c] = "done"]
    /\ outcome' = [outcome EXCEPT ![c] =
                     IF \E e \in container[c] : e[1] = "error"
                       THEN Out("LSPError", GetError(container[c]))
                       ELSE Out("result", GetResult(container[c]))]
    /\ UNCHANGED << clientVars, cop, req_id, future, container,
                    mainVars, readerVars, serverVars, released, dropped, restVars >>

\* A wait that gives up whether or not the flag is set.
TimedOutAlways(c) == TRUE
\* threading.Event.wait(timeout) returns False only with the flag unset: a
\* set() that came before the wait began is not lost.
TimedOut(c) == ~ future[c]

\* Line 57: the 10 seconds elapsed with the flag unset; future.wait returned False.
WaitTimeout(c) ==
    /\ cpc[c] = "wait"
    /\ TimedOut(c)
    /\ cpc' = [cpc EXCEPT ![c] = "timeout_lock"]
    /\ UNCHANGED << clientVars, cop, req_id, future, container, outcome,
                    mainVars, readerVars, serverVars, released, dropped, restVars >>

\* Lines 59-60 and the release: `del` raises KeyError when the key is gone.
TimeoutDelete(c) ==
    /\ cpc[c] = "timeout_del"
    /\ lock = CallerTid(c)
    /\ IF Contains(pending_requests, req_id[c])
         THEN /\ pending_requests' = Delete(pending_requests, req_id[c])
              /\ outcome' = [outcome EXCEPT ![c] = Out("TimeoutError", 0)]
         ELSE /\ pending_requests' = pending_requests
              /\ outcome' = [outcome EXCEPT ![c] = Out("KeyError", 0)]
    /\ lock' = LockReleased(CallerTid(c))
    /\ cpc' = [cpc EXCEPT ![c] = "done"]
    /\ UNCHANGED << process, running, request_id,
                    cop, req_id, future, container,
                    mainVars, readerVars, serverVars, released, dropped, restVars >>

Caller(c) ==
    \/ CallRequest(c)
    \/ CallNotification(c)
    \/ CallerAcquire(c)
    \/ AllocateId(c)
    \/ Register(c)
    \/ SendCheck(c)
    \/ SendWrite(c)
    \/ SendFlush(c)
    \/ WaitReleased(c)
    \/ WaitTimeout(c)
    \/ TimeoutDelete(c)

----------------------------------------------------------------------------
\* The control thread: start (lines 18-29) and stop (31-35).

\* Lines 19-26: Popen; the new child's handle is stored in self.process.
StartPopen ==
    /\ mpc = "idle"
    /\ nstarts < MaxStarts
    /\ nstarts' = nstarts + 1
    /\ process' = nstarts + 1
    /\ pstate' = [pstate EXCEPT ![nstarts + 1] = "up"]
    /\ mpc' = "start_run"
    /\ UNCHANGED << running, request_id, pending_requests, lock,
                    callerVars, readerVars, sin, sout, nframes, released, dropped, restVars >>

\* Lines 27-29: self.running = True and the reader thread is started.
StartReader ==
    /\ mpc = "start_run"
    /\ running' = TRUE
    /\ rpc' = [rpc EXCEPT ![nstarts] = "test"]
    /\ mpc' = "idle"
    /\ UNCHANGED << process, request_id, pending_requests, lock,
                    callerVars, nstarts, rstream, rpart, rlen, rmsg, rexit,
                    serverVars, released, dropped, restVars >>

\* Line 32: self.running = False.
StopFlag ==
    /\ mpc = "idle"
    /\ running' = FALSE
    /\ mpc' = "stop_term"
    /\ UNCHANGED << process, request_id, pending_requests, lock,
                    callerVars, nstarts, readerVars, serverVars, released, dropped, restVars >>

\* Lines 33-35: terminate() only signals the child, which exits when it
\* handles the signal (ServerExit); the handle is dropped.
\* A stop() that signals and releases without looking at the handle.
TerminatesAlways(p) == TRUE
\* Line 33: `if self.process:`.
Terminates(p) == p # None

StopTerminate ==
    /\ mpc = "stop_term"
    /\ IF Terminates(process)
         THEN /\ signalled' = Append(signalled, process)
              /\ process' = None
         ELSE UNCHANGED << signalled, process >>
    /\ mpc' = "idle"
    /\ UNCHANGED << running, request_id, pending_requests, lock,
                    callerVars, nstarts, readerVars, serverVars, released, dropped,
                    facadeVars, codecVars, queryVars, moreVars >>


----------------------------------------------------------------------------
\* The child processes.  A server is not trusted: it may emit any frame,
\* with any id, at any time, and may exit at any time.

\* "Content-Length: 1\r\n\r\n" and a body.
Frame(body) == << HeaderLine(1), BlankLine, body >>
\* A frame whose Content-Length is not a number.
BadLengthFrame(body) == << HeaderLine(-1), BlankLine, body >>

\* The frames a server may emit.
FrameMenu ==
    { Frame(Msg(i, k)) : i \in Ids, k \in { "result", "error", "request" } }
      \cup { Frame(Msg(NoId, "notify")),
             Frame(Junk),
             BadLengthFrame(Msg(NoId, "notify")) }

\* The server writes a frame; the pipe holds at most MaxPipeFrames unread.
ServerEmit(p, limit) ==
    /\ pstate[p] = "up"
    /\ nframes < limit
    /\ Len(sout[p]) <= 3 * (MaxPipeFrames - 1)
    /\ nframes' = nframes + 1
    /\ \E f \in FrameMenu : sout' = [sout EXCEPT ![p] = @ \o f]
    /\ UNCHANGED << clientVars, callerVars, mainVars, readerVars,
                    pstate, sin, released, dropped, restVars >>

ServerExit(p) ==
    /\ pstate[p] = "up"
    /\ pstate' = [pstate EXCEPT ![p] = "exited"]
    /\ UNCHANGED << clientVars, callerVars, mainVars, readerVars,
                    sin, sout, nframes, released, dropped, restVars >>

\* The server stops reading its stdin (it is busy, stuck, or blocked itself
\* on its stderr pipe, which the client never reads).
ServerStopsReading(p) ==
    /\ pstate[p] = "up"
    /\ reading[p]
    /\ reading' = [reading EXCEPT ![p] = FALSE]
    /\ UNCHANGED << clientVars, callerVars, mainVars, readerVars, serverVars,
                    released, dropped, signalled, facadeVars, codecVars, queryVars,
                    sinroom, frameVars, hoverVars, manager >>

----------------------------------------------------------------------------
\* Reader threads: _read_loop (lines 86-123).

\* `break`, or the `except Exception` of lines 121-123: the thread ends.
ReaderEnds(r, why) ==
    /\ rpc' = [rpc EXCEPT ![r] = "exited"]
    /\ rexit' = [rexit EXCEPT ![r] = why]

\* Line 87: `while self.running and self.process`.
ReaderTest(r) ==
    /\ rpc[r] = "test"
    /\ IF running /\ process # None
         THEN /\ rpc' = [rpc EXCEPT ![r] = "header_open"]
              /\ rexit' = rexit
         ELSE ReaderEnds(r, "stopped")
    /\ UNCHANGED << clientVars, callerVars, mainVars,
                    rstream, rpart, rlen, rmsg, serverVars, released, dropped, restVars >>

\* Lines 90, 101, 104: `self.process.stdout` is evaluated, and the thread
\* then reads that stream, whatever self.process becomes meanwhile.
\* With self.process None this raises AttributeError.
ReaderOpen(r) ==
    /\ rpc[r] \in { "header_open", "blank_open", "body_open" }
    /\ IF process = None
         THEN /\ ReaderEnds(r, "AttributeError")
              /\ rstream' = rstream
         ELSE /\ rpc' = [rpc EXCEPT ![r] =
                          CASE rpc[r] = "header_open" -> "header_read"
                            [] rpc[r] = "blank_open" -> "blank_read"
                            [] OTHER -> "body_read"]
              /\ rstream' = [rstream EXCEPT ![r] = process]
              /\ rexit' = rexit
    /\ UNCHANGED << clientVars, callerVars, mainVars,
                    rpart, rlen, rmsg, serverVars, released, dropped, restVars >>

\* A loop that goes round again when a read returns nothing.
AtEndOfInputGoesOn == [pc |-> "test", exit |-> "none"]
\* Lines 91-92 and 105-106: `if not line: break`, `if not body: break`.
AtEndOfInput == [pc |-> "exited", exit |-> "eof"]

\* Line 95: line.startswith("Content-Length:").
IsContentLength(u) == u.t = "CL"
\* Line 98: int(...) of a header's value is defined when it is a number.
IsNumeric(u) == u.val >= 0
\* A unit that ends a line.
EndsLine(u) == u.t \in { "CL", "blank", "other" }

\* What line 90's readline leads to once it has returned line `u`
\* (NoMsg for the empty bytes of end-of-input), lines 91-98.
AfterHeaderLine(r, u, partial) ==
    IF u = NoMsg /\ ~ partial
      THEN /\ rpc' = [rpc EXCEPT ![r] = AtEndOfInput.pc]
           /\ rexit' = [rexit EXCEPT ![r] = AtEndOfInput.exit]
           /\ rlen' = rlen
    ELSE IF partial \/ ~ IsContentLength(u)
      THEN /\ rpc' = [rpc EXCEPT ![r] = "test"]
           /\ rexit' = rexit
           /\ rlen' = rlen
    ELSE IF ~ IsNumeric(u)
      THEN /\ ReaderEnds(r, "ValueError")
           /\ rlen' = rlen
    ELSE /\ rpc' = [rpc EXCEPT ![r] = "blank_open"]
         /\ rexit' = rexit
         /\ rlen' = [rlen EXCEPT ![r] = u.val]

\* Line 101: the line read is thrown away, whatever it is.
AfterBlankLine(r) ==
    /\ rpc' = [rpc EXCEPT ![r] = "body_open"]
    /\ rexit' = rexit
    /\ rlen' = rlen

\* Lines 90 and 101: readline on an unbuffered pipe takes what is there up to
\* a newline, waits for more when there is none, and returns what it has at
\* end-of-input.
ReaderReadLine(r) ==
    /\ rpc[r] \in { "header_read", "blank_read" }
    /\ LET s == rstream[r] IN
       IF sout[s] # << >>
         THEN LET u == Head(sout[s]) IN
              /\ sout' = [sout EXCEPT ![s] = Tail(@)]
              /\ IF EndsLine(u)
                   THEN /\ rpart' = [rpart EXCEPT ![r] = FALSE]
                        /\ IF rpc[r] = "header_read"
                             THEN AfterHeaderLine(r, u, rpart[r])
                             ELSE AfterBlankLine(r)
                   ELSE /\ rpart' = [rpart EXCEPT ![r] = TRUE]
                        /\ UNCHANGED << rpc, rexit, rlen >>
         ELSE /\ pstate[s] = "exited"
              /\ sout' = sout
              /\ rpart' = [rpart EXCEPT ![r] = FALSE]
              /\ IF rpc[r] = "header_read"
                   THEN AfterHeaderLine(r, NoMsg, rpart[r])
                   ELSE AfterBlankLine(r)
    /\ rstream' = [rstream EXCEPT ![r] = IF rpc'[r] = rpc[r] THEN @ ELSE None]
    /\ UNCHANGED << clientVars, callerVars, mainVars,
                    rmsg, pstate, sin, nframes, released, dropped, restVars >>

Min(a, b) == IF a <= b THEN a ELSE b

\* Line 108: json.loads, which skips surrounding whitespace; NoMsg when the
\* text is not JSON (json.JSONDecodeError).
JsonLoads(body) ==
    LET text == SelectSeq(body, LAMBDA u : u.t # "blank") IN
    IF Len(text) = 1 /\ text[1].t = "msg" THEN text[1]
    ELSE IF Len(text) = 2 /\ text[1] = Half(Msg(text[1].id, text[1].kind), 1)
                          /\ text[2] = Half(Msg(text[1].id, text[1].kind), 2)
      THEN Msg(text[1].id, text[1].kind)
    ELSE NoMsg

\* Line 110: "id" in message and message["id"] is not None.
HasId(m) == m.id # NoId

\* Lines 104-110: read(length) on an unbuffered pipe returns what one read
\* of the pipe gives, at most `length`; b'' at end-of-input or for length 0.
ReaderReadBody(r) ==
    /\ rpc[r] = "body_read"
    /\ LET s == rstream[r] IN
       IF rlen[r] = 0
         THEN /\ rpc' = [rpc EXCEPT ![r] = AtEndOfInput.pc]
              /\ rexit' = [rexit EXCEPT ![r] = AtEndOfInput.exit]
              /\ UNCHANGED << sout, rmsg >>
       ELSE IF sout[s] # << >>
         THEN LET n == Min(rlen[r], Len(sout[s]))
                  m == JsonLoads(SubSeq(sout[s], 1, n)) IN
              /\ sout' = [sout EXCEPT ![s] = SubSeq(@, n + 1, Len(@))]
              /\ IF m = NoMsg
                   THEN /\ ReaderEnds(r, "JSONDecodeError")
                        /\ rmsg' = rmsg
                   ELSE /\ rpc' = [rpc EXCEPT ![r] = IF HasId(m) THEN "resolve_lock" ELSE "test"]
                        /\ rmsg' = [rmsg EXCEPT ![r] = IF HasId(m) THEN m ELSE NoMsg]
                        /\ rexit' = rexit
         ELSE /\ pstate[s] = "exited"
              /\ rpc' = [rpc EXCEPT ![r] = AtEndOfInput.pc]
              /\ rexit' = [rexit EXCEPT ![r] = AtEndOfInput.exit]
              /\ UNCHANGED << sout, rmsg >>
    /\ rstream' = [rstream EXCEPT ![r] = None]
    /\ rlen' = [rlen EXCEPT ![r] = 0]
    /\ UNCHANGED << clientVars, callerVars, mainVars,
                    rpart, pstate, sin, nframes, released, dropped, restVars >>

\* Line 111: `with self.lock:`.
ReaderAcquire(r) ==
    /\ rpc[r] = "resolve_lock"
    /\ lock = 0
    /\ lock' = ReaderTid(r)
    /\ rpc' = [rpc EXCEPT ![r] = "resolve"]
    /\ UNCHANGED << process, running, request_id, pending_requests,
                    callerVars, mainVars, rstream, rpart, rlen, rmsg, rexit,
                    serverVars, released, dropped, restVars >>

\* Line 114: "error" in message.  A message of kind "both" has a result and
\* an error field, one of kind "null" a result field that is null.
HasError(m) == m.kind \in { "error", "both" }
HasResult(m) == m.kind \in { "result", "both", "null" }
\* message.get("result")
ResultOf(m) == IF m.kind \in { "result", "both" } THEN m.val ELSE None

\* A reader that copies each field the message has, and only those.
FilledEachField(cont, m) ==
    cont \cup (IF HasError(m) THEN { << "error", m.val >> } ELSE {})
         \cup (IF HasResult(m) THEN { << "result", ResultOf(m) >> } ELSE {})
\* Lines 114-117: what the message puts in the container.
Filled(cont, m) ==
    IF HasError(m)
      THEN { e \in cont : e[1] # "error" } \cup { << "error", m.val >> }
      ELSE { e \in cont : e[1] # "result" } \cup { << "result", ResultOf(m) >> }

\* For the history: why an id the reader looked up was absent.  "late": its
\* caller removed it on timeout; "resolved": an earlier message resolved it;
\* "early": its caller has not registered it yet; "unknown": no call has it.
WhyAbsent(id) ==
    IF \E c \in Callers : req_id[c] = id /\ outcome[c].kind = "TimeoutError" THEN "late"
    ELSE IF \E c \in Callers : req_id[c] = id /\ future[c] THEN "resolved"
    ELSE IF \E c \in Callers : req_id[c] = id THEN "early"
    ELSE "unknown"

\* A reader that deletes without looking: KeyError, caught at line 121, ends it.
AfterMissRaises == [pc |-> "exited", exit |-> "KeyError"]
\* Where the loop goes after line 112 found the id absent: nothing is raised.
AfterMiss == [pc |-> "test", exit |-> "none"]

\* Lines 112-119 and the release.
ReaderResolve(r) ==
    /\ rpc[r] = "resolve"
    /\ lock = ReaderTid(r)
    /\ LET m == rmsg[r] IN
       IF Contains(pending_requests, m.id)
         THEN LET c == Lookup(pending_requests, m.id) IN
              /\ container' = [container EXCEPT ![c] = Filled(@, m)]
              /\ future' = [future EXCEPT ![c] = TRUE]
              /\ released' = [released EXCEPT ![c] = Append(@, m)]
              /\ dropped' = dropped
              /\ pending_requests' = Delete(pending_requests, m.id)
              /\ rpc' = [rpc EXCEPT ![r] = "test"]
              /\ rexit' = rexit
         ELSE /\ UNCHANGED << container, future, pending_requests >>
              /\ released' = released
              /\ dropped' = dropped \cup { << m.id, WhyAbsent(m.id) >> }
              /\ rpc' = [rpc EXCEPT ![r] = AfterMiss.pc]
              /\ rexit' = [rexit EXCEPT ![r] = AfterMiss.exit]
    /\ lock' = LockReleased(ReaderTid(r))
    /\ rmsg' = [rmsg EXCEPT ![r] = NoMsg]
    /\ UNCHANGED << process, running, request_id,
                    cpc, cop, req_id, outcome, mainVars,
                    rstream, rpart, rlen, serverVars, restVars >>

Reader(r) ==
    \/ ReaderTest(r)
    \/ ReaderOpen(r)
    \/ ReaderReadLine(r)
    \/ ReaderReadBody(r)
    \/ ReaderAcquire(r)
    \/ ReaderResolve(r)

----------------------------------------------------------------------------
\* One connection: start() is called once, on a fresh client, while any
\* number of threads call send_request and send_notification and the server
\* emits whatever it likes.
Connect == (nstarts = 0 /\ StartPopen) \/ StartReader

Next ==
    \/ \E c \in Callers : Caller(c)
    \/ Connect
    \/ \E r \in Readers : Reader(r)
    \/ \E p \in Procs : ServerEmit(p, MaxFrames) \/ ServerExit(p)

Spec == Init /\ [][Next]_vars

\* The client's life: any sequence of start() and stop() calls by the control
\* thread, concurrent with the callers and the readers.
NextLifecycle ==
    \/ \E c \in 1 .. LifeCallers : Caller(c)
    \/ StartPopen \/ StartReader
    \/ StopFlag \/ StopTerminate
    \/ \E r \in Readers : Reader(r)
    \/ \E p \in Procs : ServerEmit(p, LifeFrames) \/ ServerExit(p)

SpecLifecycle == Init /\ [][NextLifecycle]_vars

\* The children terminate() was called on.
Signalled == { signalled[i] : i \in 1 .. Len(signalled) }
\* A child that was sent the termination signal exits.
TerminatedExit(p) == p \in Signalled /\ ServerExit(p)

\* One connection that may be stopped, with a server that may also stop
\* reading, under the scheduling the threads get: a thread that can take a
\* step takes it in the end (a wait with a timeout ends, a lock that is free
\* is acquired, a read of data that is there returns), start() and stop() run
\* to their end, and a child that was signalled exits.  Nothing is assumed of
\* what a server does of its own accord.
NextLive ==
    \/ \E c \in 1 .. LifeCallers : Caller(c)
    \/ Connect
    \/ StopFlag \/ StopTerminate
    \/ \E r \in Readers : Reader(r)
    \/ \E p \in Procs : ServerEmit(p, LifeFrames) \/ ServerExit(p) \/ ServerStopsReading(p)

ThreadsRun ==
    /\ \A r \in Readers : WF_vars(Reader(r))
    /\ WF_vars(StartReader)
    /\ WF_vars(StopTerminate)
    /\ \A p \in Procs : WF_vars(TerminatedExit(p))
Scheduling ==
    /\ \A c \in 1 .. LifeCallers : WF_vars(Caller(c))
    /\ ThreadsRun

SpecLive == Init /\ [][NextLive]_vars /\ Scheduling

\* The reader threads over the client's life: any sequence of start() and
\* stop() calls by the control thread, no request being made, under the same
\* scheduling.
NextStop ==
    \/ StartPopen \/ StartReader
    \/ StopFlag \/ StopTerminate
    \/ \E r \in Readers : Reader(r)
    \/ \E p \in Procs : ServerEmit(p, LifeFrames) \/ ServerExit(p)

SpecStop == Init /\ [][NextStop]_vars /\ ThreadsRun

----------------------------------------------------------------------------
\* The result slot: one connection whose server answers with Responses of
\* every shape, for any id: a result, an error, both fields, a null result.

Both(id) == Unit("msg", id, "both", Payload(id))
NullResult(id) == Unit("msg", id, "null", None)
SlotMessages ==
    UNION { { Msg(i, "result"), Msg(i, "error"), Both(i), NullResult(i) } : i \in Ids }

ServerReplies(p) ==
    /\ pstate[p] = "up"
    /\ nframes < MaxFrames
    /\ Len(sout[p]) <= 3 * (MaxPipeFrames - 1)
    /\ nframes' = nframes + 1
    /\ \E m \in SlotMessages : sout' = [sout EXCEPT ![p] = @ \o Frame(m)]
    /\ UNCHANGED << clientVars, callerVars, mainVars, readerVars,
                    pstate, sin, released, dropped, restVars >>

NextSlot ==
    \/ \E c \in Callers : Caller(c)
    \/ Connect
    \/ \E r \in Readers : Reader(r)
    \/ \E p \in Procs : ServerReplies(p) \/ ServerExit(p)

SpecSlot == Init /\ [][NextSlot]_vars

----------------------------------------------------------------------------
\* LSPClient (lines 125-149): one thread owns the client and calls
\* initialize() and stop() on it, one call after the other.  Inside
\* initialize() it runs start(), send_request and send_notification, whose
\* steps are those above, taken by caller thread Owner.

MaxFacadeFrames == 1
Owner == 1

\* The steps of a caller inside send_request / send_notification / _send.
CallSteps(c) ==
    \/ CallerAcquire(c)
    \/ AllocateId(c)
    \/ Register(c)
    \/ SendCheck(c)
    \/ SendWrite(c)
    \/ SendFlush(c)
    \/ WaitReleased(c)
    \/ WaitTimeout(c)
    \/ TimeoutDelete(c)

\* The locals of a call that has not begun.
FreshCall(c, op, pc) ==
    /\ cpc' = [cpc EXCEPT ![c] = pc]
    /\ cop' = [cop EXCEPT ![c] = op]
    /\ req_id' = [req_id EXCEPT ![c] = NoId]
    /\ future' = [future EXCEPT ![c] = FALSE]
    /\ container' = [container EXCEPT ![c] = {}]
    /\ outcome' = [outcome EXCEPT ![c] = NoOutcome]

\* Line 131: initialize() is called, whatever calls came before.
InitializeCall ==
    /\ ipc \in { "idle", "done" }
    /\ mpc = "idle"
    /\ ipc' = "start"
    /\ ichild' = nstarts
    /\ ioutcome' = NoOutcome
    /\ FreshCall(Owner, "none", "idle")
    /\ UNCHANGED << clientVars, mainVars, readerVars, serverVars, released, dropped,
                    signalled, capabilities, codecVars, queryVars, moreVars >>

\* Line 132: self.start(), by the steps of start().
InitializeStart ==
    \/ (ipc = "start" /\ nstarts = ichild /\ StartPopen)
    \/ (ipc = "start" /\ StartReader)

\* A start() that marks the client running before it spawns.
SpawnErrorMarksRunning == [process |-> process, running |-> TRUE]
\* Lines 19-26 when Popen raises: the assignment of line 19 does not happen
\* and lines 27-29 are not reached.
SpawnErrorLeaves == [process |-> process, running |-> running]

\* Line 132, the executable cannot be started: Popen's error leaves start()
\* and initialize().
InitializeSpawnError ==
    /\ ipc = "start"
    /\ mpc = "idle"
    /\ nstarts = ichild
    /\ process' = SpawnErrorLeaves.process
    /\ running' = SpawnErrorLeaves.running
    /\ ipc' = "done"
    /\ ioutcome' = Out("SpawnError", 0)
    /\ UNCHANGED << request_id, pending_requests, lock, callerVars, mainVars,
                    readerVars, serverVars, released, dropped,
                    signalled, ichild, capabilities, codecVars, queryVars, moreVars >>

\* Line 146: send_request("initialize", params) is entered, start() having returned.
InitializeRequest ==
    /\ ipc = "start"
    /\ mpc = "idle"
    /\ nstarts > ichild
    /\ ipc' = "await"
    /\ FreshCall(Owner, "request", "alloc_lock")
    /\ UNCHANGED << clientVars, mainVars, readerVars, serverVars, released, dropped,
                    signalled, ichild, capabilities, ioutcome, codecVars, queryVars, moreVars >>

\* An initialize() that forgets the result.
DropCapabilities(result) == NoCapabilities
\* Line 147: result.get("capabilities", {}); a result is told from another by
\* its payload, and so are its capabilities.
StoreCapabilities(result) == result

\* Lines 146-148: send_request has ended.  Its exception leaves initialize();
\* its result is used (None has no .get: AttributeError), the capabilities
\* are stored and send_notification("initialized") is entered.
InitializeStore ==
    /\ ipc = "await"
    /\ cpc[Owner] = "done"
    /\ IF outcome[Owner].kind = "result" /\ outcome[Owner].val # None
         THEN /\ capabilities' = StoreCapabilities(outcome[Owner].val)
              /\ ipc' = "notify"
              /\ ioutcome' = ioutcome
              /\ FreshCall(Owner, "notify", NotificationEntry)
         ELSE /\ capabilities' = capabilities
              /\ ipc' = "done"
              /\ ioutcome' = IF outcome[Owner].kind = "result"
                               THEN Out("AttributeError", 0) ELSE outcome[Owner]
              /\ UNCHANGED callerVars
    /\ UNCHANGED << clientVars, mainVars, readerVars, serverVars, released, dropped,
                    signalled, ichild, codecVars, queryVars, moreVars >>

\* Lines 148-149: send_notification has ended; `return result`.
InitializeReturn ==
    /\ ipc = "notify"
    /\ cpc[Owner] = "done"
    /\ ipc' = "done"
    /\ ioutcome' = IF outcome[Owner] = Out("returned", 0)
                     THEN Out("returned", capabilities) ELSE outcome[Owner]
    /\ UNCHANGED << clientVars, callerVars, mainVars, readerVars, serverVars,
                    released, dropped, signalled, ichild, capabilities, codecVars, queryVars, moreVars >>

\* stop(), called by the owner between two calls of initialize().
FacadeStop ==
    \/ (ipc \in { "idle", "done" } /\ StopFlag)
    \/ StopTerminate

NextFacade ==
    \/ InitializeCall
    \/ InitializeStart
    \/ InitializeSpawnError
    \/ InitializeRequest
    \/ InitializeStore
    \/ InitializeReturn
    \/ FacadeStop
    \/ CallSteps(Owner)
    \/ \E r \in Readers : Reader(r)
    \/ \E p \in Procs : ServerEmit(p, MaxFacadeFrames) \/ ServerExit(p)

SpecFacade == Init /\ [][NextFacade]_vars

----------------------------------------------------------------------------
\* A client that is not connected: never started, or stopped and stop()
\* has returned.
Stopped == process = None /\ ~ running /\ mpc = "idle"

\* The steps of a thread inside _send.
SendSteps(c) == SendCheck(c) \/ SendWrite(c) \/ SendFlush(c)

\* send_request on a client that is not connected: start() is called once,
\* stop() any number of times, and thread 1 calls send_request while the
\* client is Stopped; start() is not called during that call.  Thread 2
\* sends a notification at any moment.
NextStopped ==
    \/ (cpc[1] \in { "idle", "done" } /\ Connect)
    \/ StopFlag \/ StopTerminate
    \/ (Stopped /\ CallRequest(1))
    \/ CallSteps(1)
    \/ CallNotification(2) \/ SendSteps(2)
    \/ \E r \in Readers : Reader(r)
    \/ \E p \in Procs : ServerEmit(p, LifeFrames) \/ ServerExit(p)

SpecStopped == Init /\ [][NextStopped]_vars

----------------------------------------------------------------------------
\* LSPClient.did_open / did_save (lines 151-170), called by a second thread,
\* Doc, at any moment of the owner's initialize() and stop() calls.

Doc == 2

\* The facade is Ready: initialize() has returned its result and stop() has
\* not been called since.
Ready ==
    /\ ipc = "done" /\ ioutcome.kind = "returned"
    /\ mpc = "idle" /\ running /\ process # None

\* Lines 151-161 and 163-170: the params are built and send_notification is
\* entered; the facade's state is not looked at.
DidOpenOrSave ==
    /\ cpc[Doc] = "idle"
    /\ FreshCall(Doc, "notify", NotificationEntry)
    /\ UNCHANGED << clientVars, mainVars, readerVars, serverVars, released, dropped, restVars >>

\* The owner's calls on a facade whose server is spawned once, with did_open /
\* did_save made while the facade is not Ready.
NextDocument ==
    \/ (nstarts = 0 /\ InitializeCall)
    \/ InitializeStart
    \/ InitializeSpawnError
    \/ InitializeRequest
    \/ InitializeStore
    \/ InitializeReturn
    \/ FacadeStop
    \/ CallSteps(Owner)
    \/ (~ Ready /\ DidOpenOrSave)
    \/ SendSteps(Doc)
    \/ \E r \in Readers : Reader(r)
    \/ \E p \in Procs : ServerEmit(p, MaxFacadeFrames) \/ ServerExit(p)

SpecDocument == Init /\ [][NextDocument]_vars

----------------------------------------------------------------------------
\* LSPManager (lsp_manager.py): one thread, Owner, calls start() and then a
\* query tool.  self.client, once assigned, is the LSPClient modelled above.

\* The methods start() registers as tools (lines 27-31).
ToolNames == { "lsp_hover", "lsp_definition", "lsp_references" }
\* The string the tools return when there is no client (lines 42, 49, 55).
NotRunning == Out("LSP not running.", 0)

\* What the manager's steps leave alone besides the caller's locals.
managerRest == << clientVars, mainVars, readerVars, serverVars, released, dropped,
                  signalled, facadeVars, codecVars, queryVars, pipeVars, frameVars, hoverVars >>

InitManager ==
    /\ InitClient /\ InitFacade /\ IdleCodec /\ IdleQuery /\ IdlePipes /\ IdleFrames /\ IdleHover
    /\ \E enabled \in BOOLEAN : manager = NewManager(enabled)

\* Lines 15-22: start() returns at once when LSP is disabled; shlex.split
\* raises ValueError on a command with an unbalanced quote (splits = FALSE),
\* which the except clause of line 33 swallows; else self.client is assigned.
ManagerStart(splits) ==
    /\ manager.pc = "new"
    /\ manager' =
          IF ~ manager.lsp_enabled THEN [manager EXCEPT !.pc = "started"]
          ELSE IF ~ splits THEN [manager EXCEPT !.pc = "started", !.failed = TRUE]
          ELSE [manager EXCEPT !.pc = "initialize", !.client = 1]
    /\ UNCHANGED << callerVars, managerRest >>

\* Line 23: self.client.initialize() is called.
ManagerInitialize == manager.pc = "initialize" /\ ipc = "idle" /\ InitializeCall

\* Lines 24-34: initialize() has returned, the tools are registered; or it
\* has raised, and the except clause prints and start() returns.
ManagerStarted ==
    /\ manager.pc = "initialize"
    /\ ipc = "done"
    /\ manager' =
          IF ioutcome.kind = "returned"
            THEN [manager EXCEPT !.pc = "started", !.tools = ToolNames]
            ELSE [manager EXCEPT !.pc = "started", !.failed = TRUE]
    /\ UNCHANGED << callerVars, managerRest >>

\* Lines 42-45, 49-51, 55-57 and 63-77: without a client the tool returns
\* NotRunning; else _ensure_open sends didOpen when the file exists, and the
\* query follows.
LspTool(name, exists) ==
    /\ manager.pc = "started"
    /\ IF manager.client = None
         THEN /\ manager' = [manager EXCEPT !.pc = "returned", !.tool = name, !.returned = NotRunning]
              /\ UNCHANGED callerVars
         ELSE IF exists
         THEN /\ manager' = [manager EXCEPT !.pc = "ensure_open", !.tool = name]
              /\ FreshCall(Owner, "notify", NotificationEntry)
         ELSE /\ manager' = [manager EXCEPT !.pc = "query", !.tool = name]
              /\ FreshCall(Owner, "request", "alloc_lock")
    /\ UNCHANGED managerRest

\* Lines 44-45, 50-51, 56-57: _ensure_open has returned; the query's
\* send_request is entered.
LspToolQuery ==
    /\ manager.pc = "ensure_open"
    /\ cpc[Owner] = "done"
    /\ manager' = [manager EXCEPT !.pc = "query"]
    /\ FreshCall(Owner, "request", "alloc_lock")
    /\ UNCHANGED managerRest

\* Lines 45, 51, 57: the query has returned or raised, and so does the tool.
LspToolReturns ==
    /\ manager.pc = "query"
    /\ cpc[Owner] = "done"
    /\ manager' = [manager EXCEPT !.pc = "returned", !.returned = outcome[Owner]]
    /\ UNCHANGED << callerVars, managerRest >>

NextManager ==
    \/ \E splits \in BOOLEAN : ManagerStart(splits)
    \/ ManagerInitialize
    \/ InitializeStart
    \/ InitializeSpawnError
    \/ InitializeRequest
    \/ InitializeStore
    \/ InitializeReturn
    \/ ManagerStarted
    \/ \E name \in ToolNames, exists \in BOOLEAN : LspTool(name, exists)
    \/ LspToolQuery
    \/ LspToolReturns
    \/ CallSteps(Owner)
    \/ \E r \in Readers : Reader(r)
    \/ \E p \in Procs : ServerEmit(p, MaxFacadeFrames) \/ ServerExit(p)

SpecManager == InitManager /\ [][NextManager]_vars

----------------------------------------------------------------------------
\* The codec: what _send makes of a message (lines 76-81: json.dumps, len,
\* str.encode) and what _read_loop makes of the bytes (lines 98, 104, 108:
\* int, read, bytes.decode, json.loads).  A str is a sequence of code points,
\* an ASCII one written as itself, the others by name; a bytes object is a
\* sequence of bytes, an ASCII one written as its character, the others in hex.

MaxText == 2

NonAscii == { "U+00E9", "U+20AC", "U+1F600" }
CodePoints == { "a", " ", "\"", "\\" } \cup NonAscii
DigitChars == << "0", "1", "2", "3", "4", "5", "6", "7", "8", "9" >>

RECURSIVE Concat(_)
Concat(ss) ==
    IF Len(ss) = 0 THEN << >>
    ELSE IF Len(ss) = 1 THEN ss[1]
    ELSE LET half == Len(ss) \div 2 IN
         Concat(SubSeq(ss, 1, half)) \o Concat(SubSeq(ss, half + 1, Len(ss)))

\* The UTF-16 code units of a code point, each as four hex digits.
Utf16(ch) ==
    CASE ch = "U+00E9" -> << << "0", "0", "e", "9" >> >>
      [] ch = "U+20AC" -> << << "2", "0", "a", "c" >> >>
      [] ch = "U+1F600" -> << << "d", "8", "3", "d" >>, << "d", "e", "0", "0" >> >>
      [] OTHER -> << >>

\* json.dumps(..., ensure_ascii=False): code points are written as they are.
EscapeNonAsciiRaw(ch) == << ch >>
\* json.dumps, ensure_ascii=True: a code point outside ASCII becomes \uXXXX,
\* one outside the basic plane a surrogate pair of them.
EscapeNonAscii(ch) == Concat([i \in 1 .. Len(Utf16(ch)) |-> << "\\", "u" >> \o Utf16(ch)[i]])

\* json.encoder.py_encode_basestring_ascii, one character.
Escape(ch) ==
    IF ch \in { "\"", "\\" } THEN << "\\", ch >>
    ELSE IF ch \in NonAscii THEN EscapeNonAscii(ch)
    ELSE << ch >>

\* str(n) for n >= 0.
RECURSIVE Digits(_)
Digits(n) == IF n < 10 THEN << DigitChars[n + 1] >> ELSE Digits(n \div 10) \o << DigitChars[(n % 10) + 1] >>

StrValue(v) == [t |-> "str", v |-> v]
IntValue(v) == [t |-> "int", v |-> v]
DictValue(v) == [t |-> "dict", v |-> v]

\* json.dumps of a str, an int, or a dict (a sequence of <<key, value>>).
RECURSIVE json_dumps(_)
json_dumps(x) ==
    CASE x.t = "str" -> << "\"" >> \o Concat([i \in 1 .. Len(x.v) |-> Escape(x.v[i])]) \o << "\"" >>
      [] x.t = "int" -> Digits(x.v)
      [] OTHER ->
           << "{" >>
           \o Concat([i \in 1 .. Len(x.v) |->
                        (IF i = 1 THEN << >> ELSE << ",", " " >>)
                        \o json_dumps(StrValue(x.v[i][1])) \o << ":", " " >> \o json_dumps(x.v[i][2])])
           \o << "}" >>

\* str.encode('utf-8'), one code point.
Utf8(ch) ==
    CASE ch = "U+00E9" -> << "C3", "A9" >>
      [] ch = "U+20AC" -> << "E2", "82", "AC" >>
      [] ch = "U+1F600" -> << "F0", "9F", "98", "80" >>
      [] OTHER -> << ch >>
encode(text) == Concat([i \in 1 .. Len(text) |-> Utf8(text[i])])

\* The bytes that are not ASCII.
HighBytes == UNION { { Utf8(ch)[i] : i \in 1 .. Len(Utf8(ch)) } : ch \in NonAscii }

\* A raised exception, as a value.
Raised(what) == [t |-> "raised", v |-> what]

\* In UTF-8 the first byte of a code point tells how many bytes it takes, and
\* the bytes that follow it are of a kind that starts none.
Width(byte) == CASE byte = "C3" -> 2 [] byte = "E2" -> 3 [] byte = "F0" -> 4 [] OTHER -> 1
Continuation == HighBytes \ { "C3", "E2", "F0" }
Leads(bytes) == { i \in 1 .. Len(bytes) : bytes[i] \notin Continuation }
\* The code point whose bytes start at i, if any.
IsCodePointAt(bytes, i) ==
    /\ i + Width(bytes[i]) - 1 <= Len(bytes)
    /\ \/ bytes[i] \notin HighBytes
       \/ \E ch \in NonAscii : Utf8(ch) = SubSeq(bytes, i, i + Width(bytes[i]) - 1)
CodePointAt(bytes, i) ==
    IF bytes[i] \notin HighBytes THEN bytes[i]
    ELSE CHOOSE ch \in NonAscii : Utf8(ch) = SubSeq(bytes, i, i + Width(bytes[i]) - 1)

\* bytes.decode('utf-8'): the str, as a StrValue, or UnicodeDecodeError on a
\* byte sequence that is no code point's, such as one cut short.
decode(bytes) ==
    LET leads == Leads(bytes)
        nth(k) == CHOOSE i \in leads : Cardinality({ j \in leads : j <= i }) = k IN
    IF /\ \A i \in leads : IsCodePointAt(bytes, i)
       /\ \A i \in (1 .. Len(bytes)) \ leads :
              \E j \in leads : j < i /\ i < j + Width(bytes[j])
      THEN StrValue([k \in 1 .. Cardinality(leads) |-> CodePointAt(bytes, nth(k))])
      ELSE Raised("UnicodeDecodeError")

\* The parser's answer: the value read and the index after it.
Parsed(val, next) == [ok |-> TRUE, val |-> val, next |-> next]
ParseFails == [ok |-> FALSE, val |-> Raised("JSONDecodeError"), next |-> 0]

At(text, i) == IF i <= Len(text) THEN text[i] ELSE ""
RECURSIVE SkipWs(_, _)
SkipWs(text, i) == IF At(text, i) = " " THEN SkipWs(text, i + 1) ELSE i

IsHigh(quad) == quad = Utf16("U+1F600")[1]
IsLow(quad) == quad = Utf16("U+1F600")[2]
\* A \uXXXX escape alone: the code point with that one code unit.
Bmp(quad) ==
    IF \E ch \in NonAscii : Utf16(ch) = << quad >>
      THEN CHOOSE ch \in NonAscii : Utf16(ch) = << quad >>
      ELSE IF quad = Utf16("U+1F600")[1] THEN "U+D83D"
      ELSE IF quad = Utf16("U+1F600")[2] THEN "U+DE00"
      ELSE "U+FFFD"

\* A decoder that takes every \uXXXX escape alone.
SurrogatePairAlone(hi, lo) == << Bmp(hi), Bmp(lo) >>
\* json.decoder: a high surrogate followed by a low one is one code point.
SurrogatePair(hi, lo) ==
    IF \E ch \in NonAscii : Utf16(ch) = << hi, lo >>
      THEN << CHOOSE ch \in NonAscii : Utf16(ch) = << hi, lo >> >>
      ELSE << Bmp(hi), Bmp(lo) >>

\* json.decoder.py_scanstring from index i, just after the opening quote.
RECURSIVE ScanString(_, _, _)
ScanString(text, i, acc) ==
    IF i > Len(text) THEN ParseFails
    ELSE IF text[i] = "\"" THEN Parsed(acc, i + 1)
    ELSE IF text[i] # "\\" THEN ScanString(text, i + 1, Append(acc, text[i]))
    ELSE IF At(text, i + 1) \in { "\"", "\\" }
      THEN ScanString(text, i + 2, Append(acc, text[i + 1]))
    ELSE IF At(text, i + 1) # "u" \/ i + 5 > Len(text) THEN ParseFails
    ELSE LET hi == SubSeq(text, i + 2, i + 5) IN
         IF IsHigh(hi) /\ At(text, i + 6) = "\\" /\ At(text, i + 7) = "u"
               /\ i + 11 <= Len(text) /\ IsLow(SubSeq(text, i + 8, i + 11))
           THEN ScanString(text, i + 12, acc \o SurrogatePair(hi, SubSeq(text, i + 8, i + 11)))
           ELSE ScanString(text, i + 6, Append(acc, Bmp(hi)))

IsDigit(ch) == \E d \in 1 .. 10 : DigitChars[d] = ch
DigitValue(ch) == (CHOOSE d \in 1 .. 10 : DigitChars[d] = ch) - 1
RECURSIVE ScanNumber(_, _, _)
ScanNumber(text, i, acc) ==
    IF IsDigit(At(text, i)) THEN ScanNumber(text, i + 1, 10 * acc + DigitValue(text[i]))
    ELSE Parsed(IntValue(acc), i)

\* json.scanner: one value from index i; objects hold "key": value pairs.
RECURSIVE ScanValue(_, _)
RECURSIVE ScanPairs(_, _, _)
ScanValue(text, i) ==
    IF At(text, i) = "\"" THEN
        LET r == ScanString(text, i + 1, << >>) IN
        IF r.ok THEN Parsed(StrValue(r.val), r.next) ELSE ParseFails
    ELSE IF IsDigit(At(text, i)) THEN ScanNumber(text, i, 0)
    ELSE IF At(text, i) = "{" THEN
        IF At(text, SkipWs(text, i + 1)) = "}"
          THEN Parsed(DictValue(<< >>), SkipWs(text, i + 1) + 1)
          ELSE ScanPairs(text, SkipWs(text, i + 1), << >>)
    ELSE ParseFails
ScanPairs(text, i, acc) ==
    IF At(text, i) # "\"" THEN ParseFails
    ELSE LET k == ScanString(text, i + 1, << >>) IN
         IF ~ k.ok \/ At(text, SkipWs(text, k.next)) # ":" THEN ParseFails
         ELSE LET v == ScanValue(text, SkipWs(text, SkipWs(text, k.next) + 1)) IN
              IF ~ v.ok THEN ParseFails
              ELSE LET j == SkipWs(text, v.next)
                       pairs == Append(acc, << k.val, v.val >>) IN
                   IF At(text, j) = "}" THEN Parsed(DictValue(pairs), j + 1)
                   ELSE IF At(text, j) = "," THEN ScanPairs(text, SkipWs(text, j + 1), pairs)
                   ELSE ParseFails

\* json.loads: one value, with nothing but whitespace around it.
json_loads(text) ==
    LET r == ScanValue(text, SkipWs(text, 1)) IN
    IF r.ok /\ SkipWs(text, r.next) = Len(text) + 1 THEN r.val ELSE Raised("JSONDecodeError")

\* int(...) of the header's value (line 98).
ParseInt(text) ==
    IF text # << >> /\ \A i \in 1 .. Len(text) : IsDigit(text[i])
      THEN ScanNumber(text, 1, 0).val.v
      ELSE -1

\* Lines 42-47 and 68-72: the dict of a Request (id given) or of a
\* Notification (no "id" key), with one string among its params.
Key(name) ==
    CASE name = "jsonrpc" -> << "j", "s", "o", "n", "r", "p", "c" >>
      [] name = "id" -> << "i", "d" >>
      [] name = "method" -> << "m", "e", "t", "h", "o", "d" >>
      [] name = "params" -> << "p", "a", "r", "a", "m", "s" >>
      [] OTHER -> << "t", "e", "x", "t" >>
Version == StrValue(<< "2", ".", "0" >>)
MessageDict(id, method, text) ==
    DictValue(<< << Key("jsonrpc"), Version >> >>
              \o (IF id = NoId THEN << >> ELSE << << Key("id"), IntValue(id) >> >>)
              \o << << Key("method"), StrValue(method) >>,
                    << Key("params"), DictValue(<< << Key("text"), StrValue(text) >> >>) >> >>)

RECURSIVE Texts(_)
Texts(n) ==
    IF n = 0 THEN { << >> }
    ELSE Texts(n - 1) \cup { Append(t, ch) : t \in Texts(n - 1), ch \in CodePoints }
\* The ids tried: none (a Notification), one digit, two digits.
CodecIds == { NoId, 0, 12 }
Messages == { MessageDict(id, << "m" >>, text) : id \in CodecIds, text \in Texts(MaxText) }

InitCodec ==
    /\ InitClient /\ InitFacade /\ IdleQuery /\ IdleMore
    /\ message \in Messages
    /\ wire = Nothing
    /\ decoded = Nothing

\* _send, lines 76-81: the header carries len(content), a count of code
\* points; the body is content.encode('utf-8').
Send ==
    /\ message # Nothing
    /\ wire = Nothing
    /\ LET content == json_dumps(message) IN
       wire' = [header |-> Digits(Len(content)), body |-> encode(content)]
    /\ UNCHANGED << clientVars, callerVars, mainVars, readerVars, serverVars,
                    released, dropped, signalled, facadeVars, message, decoded, queryVars, moreVars >>

\* _read_loop, lines 98, 104, 108, on those bytes: read(length) gives at most
\* `length` of them.
Receive ==
    /\ wire # Nothing
    /\ decoded = Nothing
    /\ LET length == ParseInt(wire.header)
           body == SubSeq(wire.body, 1, Min(length, Len(wire.body)))
           text == decode(body) IN
       decoded' = IF text.t = "raised" THEN text ELSE json_loads(text.v)
    /\ UNCHANGED << clientVars, callerVars, mainVars, readerVars, serverVars,
                    released, dropped, signalled, facadeVars, message, wire, queryVars, moreVars >>

NextCodec == Send \/ Receive
SpecCodec == InitCodec /\ [][NextCodec]_vars

----------------------------------------------------------------------------
\* The facade queries (lines 172-215): hover, definition, references and
\* rename build their params from a 1-based line and a character, and hand
\* them to send_request.

MaxLine == 4
MaxCharacter == 5

QueryMethods == { "hover", "definition", "references", "rename" }
Queries == [method : QueryMethods, line : 1 .. MaxLine, character : 0 .. MaxCharacter]

\* A query that sends the line as it was given.
rename_one_based(line, character) ==
    [method |-> "textDocument/rename",
     position |-> [line |-> line, character |-> character], extra |-> "newName"]
\* Lines 174-178.
hover(line, character) ==
    [method |-> "textDocument/hover",
     position |-> [line |-> line - 1, character |-> character], extra |-> "none"]
\* Lines 190-194.
definition(line, character) ==
    [method |-> "textDocument/definition",
     position |-> [line |-> line - 1, character |-> character], extra |-> "none"]
\* Lines 199-204.
references(line, character) ==
    [method |-> "textDocument/references",
     position |-> [line |-> line - 1, character |-> character], extra |-> "context"]
\* Lines 209-214.
rename(line, character) ==
    [method |-> "textDocument/rename",
     position |-> [line |-> line - 1, character |-> character], extra |-> "newName"]

InitQuery ==
    /\ InitClient /\ InitFacade /\ IdleCodec /\ IdleMore
    /\ query \in Queries
    /\ request = Nothing

\* The query method is called: the Request it hands to send_request.
SendQuery ==
    /\ request = Nothing
    /\ request' = CASE query.method = "hover" -> hover(query.line, query.character)
                    [] query.method = "definition" -> definition(query.line, query.character)
                    [] query.method = "references" -> references(query.line, query.character)
                    [] OTHER -> rename(query.line, query.character)
    /\ UNCHANGED << clientVars, callerVars, mainVars, readerVars, serverVars,
                    released, dropped, signalled, facadeVars, codecVars, query, moreVars >>

NextQuery == SendQuery
SpecQuery == InitQuery /\ [][NextQuery]_vars

----------------------------------------------------------------------------
\* Framing on the read side (lines 89-108): a server that keeps to the base
\* protocol writes well-formed frames, possibly with a Content-Type header
\* before or after Content-Length, and possibly with the body in two writes
\* (a body longer than one write to the pipe takes).  It writes a frame when
\* the client has taken everything it wrote before.

MaxFramingFrames == 2

FrameShapes == { "plain", "before", "after", "chunked" }
FramingMessages == { Msg(i, k) : i \in Ids, k \in { "result", "error" } }

\* The units of the frame of message m in a shape.
FramedAs(m, shape) ==
    CASE shape = "plain" -> Frame(m)
      [] shape = "before" -> << OtherLine >> \o Frame(m)
      [] shape = "after" -> << HeaderLine(1), OtherLine, BlankLine, m >>
      [] OTHER -> << HeaderLine(2), BlankLine, Half(m, 1), Half(m, 2) >>
\* How many of them the server's first write holds.
FirstWrite(shape) == IF shape = "chunked" THEN 3 ELSE 4

\* The server writes a frame, or as much of it as one write takes.
ServerWrites(p) ==
    /\ pstate[p] = "up"
    /\ nframes < MaxFramingFrames
    /\ sout[p] = << >>
    /\ owed = << >>
    /\ nframes' = nframes + 1
    /\ \E m \in FramingMessages, shape \in FrameShapes :
          LET f == FramedAs(m, shape)
              n == Min(FirstWrite(shape), Len(f)) IN
          /\ sout' = [sout EXCEPT ![p] = SubSeq(f, 1, n)]
          /\ owed' = SubSeq(f, n + 1, Len(f))
          /\ framed' = [p |-> p, shape |-> shape, msg |-> m]
    /\ UNCHANGED << clientVars, callerVars, mainVars, readerVars, pstate, sin,
                    released, dropped, signalled, facadeVars, codecVars, queryVars,
                    pipeVars, hoverVars, manager >>

\* The server writes the rest of the body.
ServerWritesRest(p) ==
    /\ pstate[p] = "up"
    /\ framed # Nothing
    /\ framed.p = p
    /\ owed # << >>
    /\ sout' = [sout EXCEPT ![p] = @ \o owed]
    /\ owed' = << >>
    /\ UNCHANGED << clientVars, callerVars, mainVars, readerVars, pstate, sin, nframes,
                    released, dropped, signalled, facadeVars, codecVars, queryVars,
                    pipeVars, framed, hoverVars, manager >>

NextFraming ==
    \/ Connect
    \/ \E r \in Readers : Reader(r)
    \/ \E p \in Procs : ServerWrites(p) \/ ServerWritesRest(p) \/ ServerExit(p)

SpecFraming == Init /\ [][NextFraming]_vars

----------------------------------------------------------------------------
\* hover's handling of the result (lines 178-186).  A JSON value is null, a
\* str (a sequence of characters), a list (a sequence of values) or a dict (a
\* sequence of <<key, value>>).  The server's result is null or an object;
\* its contents, if any, are a string, an object, or a list of strings and
\* objects, and a "value" is a string.

MaxItems == 2

NullValue == [t |-> "null", v |-> << >>]
ListValue(v) == [t |-> "list", v |-> v]
\* str(x) of a value that is not a str: its Python repr.
Repr(x) == [t |-> "repr", v |-> x]

\* bool(x): None, "", [] and {} are false.
Truthy(x) == x.t # "null" /\ x.v # << >>
\* isinstance(x, dict) / list / str.
IsDict(x) == x.t = "dict"
IsList(x) == x.t = "list"
IsStr(x) == x.t = "str"
\* key in d, d[key].
HasKey(d, key) == \E i \in 1 .. Len(d.v) : d.v[i][1] = key
GetKey(d, key) == d.v[CHOOSE i \in 1 .. Len(d.v) : d.v[i][1] = key][2]

\* "No hover info." (line 186).
NoHoverInfo == StrValue(<< "N", "o", " ", "h", "o", "v", "e", "r", " ", "i", "n", "f", "o", "." >>)

\* A list comprehension that takes the "value" of every item.
ItemValueOnly(c) == IF IsDict(c) /\ HasKey(c, "value") THEN GetKey(c, "value").v ELSE << >>
\* Line 184: c if isinstance(c, str) else c.get("value", "").
ItemText(c) ==
    IF IsStr(c) THEN c.v
    ELSE IF HasKey(c, "value") THEN GetKey(c, "value").v ELSE << >>

\* "\n".join(texts).
RECURSIVE Join(_)
Join(texts) ==
    IF texts = << >> THEN << >>
    ELSE IF Len(texts) = 1 THEN texts[1]
    ELSE texts[1] \o << "\n" >> \o Join(Tail(texts))

\* Lines 179-186.
HoverReturn(result) ==
    IF Truthy(result) /\ HasKey(result, "contents")
      THEN LET contents == GetKey(result, "contents") IN
           IF IsDict(contents) /\ HasKey(contents, "value")
             THEN GetKey(contents, "value")
           ELSE IF IsList(contents)
             THEN StrValue(Join([i \in 1 .. Len(contents.v) |-> ItemText(contents.v[i])]))
           ELSE IF IsStr(contents) THEN contents
           ELSE Repr(contents)
      ELSE NoHoverInfo

\* The strings, the items of a list, the contents and the results tried.
HoverStrings == { StrValue(<< >>), StrValue(<< "a" >>), StrValue(<< "b", "\n", "c" >>) }
Marked(text) == DictValue(<< << "language", StrValue(<< "p", "y" >>) >>, << "value", text >> >>)
Unmarked == DictValue(<< << "language", StrValue(<< "p", "y" >>) >> >>)
HoverItems == HoverStrings \cup { Marked(text) : text \in HoverStrings } \cup { Unmarked }
RECURSIVE ItemLists(_)
ItemLists(n) ==
    IF n = 0 THEN { << >> }
    ELSE ItemLists(n - 1) \cup { Append(l, c) : l \in ItemLists(n - 1), c \in HoverItems }
HoverContents == HoverItems \cup { ListValue(l) : l \in ItemLists(MaxItems) }
Range == DictValue(<< << "start", StrValue(<< "0" >>) >> >>)
HoverResults ==
    { NullValue, DictValue(<< >>), DictValue(<< << "range", Range >> >>) }
      \cup { DictValue(<< << "contents", c >> >>) : c \in HoverContents }
      \cup { DictValue(<< << "contents", c >>, << "range", Range >> >>) : c \in HoverContents }

InitHover ==
    /\ InitClient /\ InitFacade /\ IdleCodec /\ IdleQuery /\ IdlePipes /\ IdleFrames /\ IdleManager
    /\ hresult \in HoverResults
    /\ hreturn = Nothing

\* send_request has returned hresult to hover; hover returns.
HoverReturns ==
    /\ hreturn = Nothing
    /\ hreturn' = HoverReturn(hresult)
    /\ UNCHANGED << clientVars, callerVars, mainVars, readerVars, serverVars,
                    released, dropped, signalled, facadeVars, codecVars, queryVars,
                    pipeVars, frameVars, hresult, manager >>

NextHover == HoverReturns
SpecHover == InitHover /\ [][NextHover]_vars

----------------------------------------------------------------------------
\* Properties.

Requesters == { c \in Callers : req_id[c] # NoId }
\* What send_request is to give its caller for the message that released it.
OutcomeOf(m) == IF m.kind = "error" THEN Out("LSPError", m.val) ELSE Out("result", m.val)
\* The reader thread r finishes lines 112-119 in this step.
Dispatches(r) == rpc[r] = "resolve" /\ rpc'[r] # "resolve"
\* A reader is blocked in a read of a stream.
Reading(r) == rpc[r] \in { "header_read", "blank_read", "body_read" }
\* The requests' headers on a child's stdin, in the order written.
RequestHeaders(p) == SelectSeq(sin[p], LAMBDA ch : ch.part = "header" /\ ch.id # NoId)

\* C1: a caller's future is set only by messages that carry its own request
\* id, and a call that returns a result or raises the server's error gives
\* the payload of the message with its own id that released it, never the
\* payload of another request.
C1_Correlation ==
    \A c \in Callers :
        /\ \A i \in 1 .. Len(released[c]) : released[c][i].id = req_id[c]
        /\ future[c] <=> released[c] # << >>
        /\ outcome[c].kind \in { "result", "LSPError" } =>
              /\ released[c] # << >>
              /\ outcome[c] = OutcomeOf(released[c][1])
              /\ outcome[c].val \in { None, Payload(req_id[c]) }

\* C1 witness: requests 0 and 1 were written in that order, the reply to 1
\* came first and its caller has returned it, while the caller of 0 waits.
C1_Witness ==
    \E c0, c1 \in Callers :
        /\ req_id[c0] = 0 /\ req_id[c1] = 1
        /\ Len(RequestHeaders(1)) = 2 /\ RequestHeaders(1)[1].id = 0
        /\ cpc[c0] = "wait" /\ ~ future[c0]
        /\ cpc[c1] = "done" /\ outcome[c1] = Out("result", Payload(1))

\* C2: the calls that have been given an id hold distinct ids, all below the
\* counter, N calls have used exactly N ids, and the counter never decreases.
C2_UniqueIds ==
    /\ [](/\ \A c1, c2 \in Requesters : c1 # c2 => req_id[c1] # req_id[c2]
          /\ \A c \in Requesters : req_id[c] < request_id
          /\ request_id = Cardinality(Requesters))
    /\ [][request_id' >= request_id]_vars

\* C2 witness: a call has ended (timed out or resolved) and another call holds
\* the next id.
C2_Witness ==
    \E c1, c2 \in Callers :
        /\ cpc[c1] = "done" /\ outcome[c1].kind \in { "TimeoutError", "result" }
        /\ req_id[c2] = req_id[c1] + 1

\* C3: the future of a call is set at most once, the messages that set
\* futures are no more than the frames emitted, and a message carrying the id
\* of a call already resolved changes no future, container, pending entry or
\* outcome.
C3_AtMostOnce ==
    /\ [](/\ \A c \in Callers : Len(released[c]) <= 1
          /\ Cardinality({ c \in Callers : released[c] # << >> }) <= nframes)
    /\ [][\A r \in Readers :
            (Dispatches(r) /\ \E c \in Callers : req_id[c] = rmsg[r].id /\ future[c])
              => UNCHANGED << pending_requests, future, container, outcome, released >>]_vars

\* C3 witness: a call was resolved and a second message with its id was dropped.
C3_Witness ==
    \E c \in Callers :
        /\ Len(released[c]) = 1
        /\ << req_id[c], "resolved" >> \in dropped

\* C4: the step that ends the timeout path of send_request (lines 58-60)
\* raises TimeoutError and leaves the call's id out of the pending map.
C4_TimeoutRaisesTimeoutError ==
    [][\A c \in Callers :
         (cpc[c] = "timeout_del" /\ cpc'[c] = "done")
           => /\ outcome'[c] = Out("TimeoutError", 0)
              /\ ~ Contains(pending_requests', req_id[c])]_vars

\* No message with the call's id was ever dispatched by a reader.
NeverReplied(c) ==
    /\ released[c] = << >>
    /\ \A d \in dropped : d[1] # req_id[c]

\* C5: a send_request call that ends without any reply to it having arrived
\* ends with TimeoutError, and the step that removes its entry on timeout
\* removes that entry only and touches no other call's future or container.
C5_TimeoutIsolation ==
    /\ [](\A c \in Callers :
            (cpc[c] = "done" /\ cop[c] = "request" /\ NeverReplied(c))
              => outcome[c] = Out("TimeoutError", 0))
    /\ [][\A c \in Callers :
            (cpc[c] = "timeout_del" /\ cpc'[c] = "done")
              => /\ pending_requests' = { e \in pending_requests : e[1] # req_id[c] }
                 /\ UNCHANGED << future, container >>]_vars

\* C6: when a reader dispatches a message whose id belongs to a call that
\* timed out and removed its entry, no pending entry, future, container or
\* outcome changes, and the reader goes back to the top of its loop without
\* an error.
C6_LateReplyDiscarded ==
    [][\A r \in Readers :
         (Dispatches(r) /\ WhyAbsent(rmsg[r].id) = "late")
           => /\ UNCHANGED << pending_requests, future, container, outcome, released >>
              /\ rpc'[r] = "test"
              /\ rexit'[r] = "none"]_vars

\* C6 witness: a late reply was dropped and the reader is reading the next frame.
C6_Witness ==
    \E c \in Callers, r \in Readers :
        /\ outcome[c] = Out("TimeoutError", 0)
        /\ << req_id[c], "late" >> \in dropped
        /\ rpc[r] = "header_read"

\* C7: on every child's stdin the requests appear in the order of their ids.
C7_WireOrder ==
    \A p \in Procs :
        \A i, j \in 1 .. Len(RequestHeaders(p)) :
            i < j => RequestHeaders(p)[i].id < RequestHeaders(p)[j].id

\* C8: on every child's stdin a header is followed at once by the body of the
\* same message (or is the last chunk written so far).
C8_FramesAtomic ==
    \A p \in Procs :
        \A i \in 1 .. Len(sin[p]) :
            sin[p][i].part = "header" =>
                \/ i = Len(sin[p])
                \/ sin[p][i + 1].part = "body" /\ sin[p][i + 1].by = sin[p][i].by

\* C9: no two reader threads are reading the same stream.
C9_SingleReader ==
    \A r1, r2 \in Readers :
        (r1 # r2 /\ Reading(r1) /\ Reading(r2)) => rstream[r1] # rstream[r2]

\* C10: no reader loop is ended by a malformed frame, be it a Content-Length
\* that is not a number or a body that is not JSON.
C10_MalformedNotFatal ==
    \A r \in Readers : rexit[r] \notin { "ValueError", "JSONDecodeError" }

\* C11: the Content-Length written is the number of bytes of the body written
\* after it, whatever characters the message holds.
C11_ContentLengthIsByteLength ==
    wire # Nothing => ParseInt(wire.header) = Len(wire.body)

\* C11 witness: a message with multi-byte characters in its text was written.
C11_Witness ==
    /\ wire # Nothing
    /\ message.v[Len(message.v)][2].v[1][2].v = << "U+00E9", "U+1F600" >>

\* C12: what the read side decodes from the bytes written for a message is
\* that message: the same keys with the same values, the same id.
C12_RoundTrip ==
    decoded # Nothing => decoded = message

\* C12 witness: a Request with id 12 whose text needs every kind of escape
\* has been decoded.
C12_Witness ==
    /\ decoded # Nothing
    /\ message = MessageDict(12, << "m" >>, << "\"", "U+1F600" >>)

\* The call of c has written no body to any child's stdin.
NoBodyWritten(c) ==
    \A p \in Procs : \A i \in 1 .. Len(sin[p]) : ~ (sin[p][i].part = "body" /\ sin[p][i].by = c)
\* The thread c is at a write of _send and the child has exited.
WritesToExited(c) ==
    /\ cpc[c] \in { "send_header", "send_body" }
    /\ process # None
    /\ pstate[process] = "exited"

\* C13: a write by send_request to a child that has exited raises nothing:
\* the call goes on to its wait with its pending entry untouched; and a
\* request whose body was never written and to which no reply was ever
\* dispatched ends with TimeoutError.
C13_BrokenPipeBecomesTimeout ==
    /\ [][\A c \in Callers :
            (WritesToExited(c) /\ cop[c] = "request" /\ cpc'[c] # cpc[c])
              => /\ cpc'[c] = "wait"
                 /\ outcome'[c] = NoOutcome
                 /\ pending_requests' = pending_requests]_vars
    /\ [](\A c \in Callers :
            (cop[c] = "request" /\ cpc[c] = "done" /\ NoBodyWritten(c) /\ NeverReplied(c))
              => outcome[c] = Out("TimeoutError", 0))

\* C13 witness: the child exited between the header and the body of a request,
\* and the call has ended with TimeoutError.
C13_Witness ==
    \E c \in Callers :
        /\ cop[c] = "request" /\ cpc[c] = "done"
        /\ \E i \in 1 .. Len(sin[1]) : sin[1][i].part = "header" /\ sin[1][i].by = c
        /\ NoBodyWritten(c)
        /\ pstate[1] = "exited"
        /\ outcome[c] = Out("TimeoutError", 0)

\* C14: every send_notification call that has ended has returned normally.
C14_NotificationNeverRaises ==
    \A c \in Callers :
        (cop[c] = "notify" /\ cpc[c] = "done") => outcome[c] = Out("returned", 0)

\* Everything but the position of the thread that runs start() and stop().
allButMpc == << clientVars, callerVars, nstarts, readerVars, serverVars, released, dropped, restVars >>

\* C15: a stop() on a client that is not running and holds no handle (never
\* started, or already stopped) changes nothing and signals no process; every
\* stop() ends with the handle released and the client not running; and no
\* child is signalled twice.
C15_StopIdempotent ==
    /\ [][(mpc = "idle" /\ mpc' = "stop_term" /\ process = None /\ ~ running)
            => UNCHANGED allButMpc]_vars
    /\ [][(mpc = "stop_term" /\ mpc' = "idle" /\ process = None)
            => UNCHANGED allButMpc]_vars
    /\ [][(mpc = "stop_term" /\ mpc' = "idle") => (process' = None /\ ~ running')]_vars
    /\ [](\A i, j \in 1 .. Len(signalled) :
            signalled[i] \in Procs /\ (i # j => signalled[i] # signalled[j]))

\* C15 witness: a first stop() has signalled child 1 and released it, and a
\* second stop() is at its test of the handle.
C15_Witness ==
    /\ nstarts = 1
    /\ signalled = << 1 >>
    /\ process = None /\ ~ running
    /\ mpc = "stop_term"

\* The headers of the notifications the owner has written.
IsOwnerNotification(ch) == ch.part = "header" /\ ch.by = Owner /\ ch.id = NoId
\* The headers of the owner's current request.
IsOwnerRequest(ch) == ch.part = "header" /\ ch.by = Owner /\ ch.id = req_id[Owner]
IsResult(m) == m.kind = "result"
\* How many of the owner's headers of one kind the stdin of children 1 .. p hold.
RECURSIVE CountUpTo(_, _)
CountUpTo(which, p) ==
    IF p = 0 THEN 0
    ELSE Len(SelectSeq(sin[p], LAMBDA ch : IF which = "notification"
                                             THEN IsOwnerNotification(ch)
                                             ELSE IsOwnerRequest(ch)))
         + CountUpTo(which, p - 1)

\* C16: when send_request inside initialize() ends with the result of a
\* Response, initialize() stores that Response's capabilities and goes on to
\* send the `initialized` notification; the owner has never written more
\* notifications than it has received results; and an initialize() that has
\* returned has returned with the capabilities stored.
C16_InitializeReady ==
    /\ [][(ipc = "await" /\ ipc' # "await" /\ outcome[Owner].kind = "result"
             /\ released[Owner] # << >> /\ IsResult(released[Owner][Len(released[Owner])]))
            => /\ capabilities' = released[Owner][Len(released[Owner])].val
               /\ ipc' = "notify"
               /\ cop'[Owner] = "notify" /\ cpc'[Owner] = "send_check"]_vars
    /\ [](CountUpTo("notification", MaxStarts) <= Len(SelectSeq(released[Owner], IsResult)))
    /\ []((ipc = "done" /\ ioutcome.kind = "returned")
            => (capabilities # NoCapabilities /\ capabilities = ioutcome.val))

\* C16 witness: initialize() has returned the result of the Response to
\* request 0, its capabilities are stored, and the child's stdin holds the
\* request and then the notification.
C16_Witness ==
    /\ ipc = "done"
    /\ ioutcome = Out("returned", Payload(0))
    /\ capabilities = Payload(0)
    /\ Len(sin[1]) = 4
    /\ sin[1][1].id = 0 /\ sin[1][3].id = NoId /\ sin[1][4].part = "body"

\* C17: when initialize() ends with the timeout or the server's error of its
\* request, the capabilities are as before, no notification has been begun,
\* the transport is not left started (no handle, not running), and the
\* request was not written a second time.
C17_InitializeFailureCleansUp ==
    [][(ipc = "await" /\ ipc' = "done" /\ ioutcome'.kind \in { "TimeoutError", "LSPError" })
         => /\ capabilities' = capabilities
            /\ cop'[Owner] = "request"
            /\ CountUpTo("request", MaxStarts) <= 1
            /\ process' = None
            /\ ~ running']_vars

\* C18: a child is spawned only by a client that has never been Ready (no
\* capabilities stored) and has never stopped a child.
C18_SpawnOnlyWhenUninitialized ==
    [][nstarts' > nstarts => (capabilities = NoCapabilities /\ signalled = << >>)]_vars

\* C19: when the executable cannot be started, initialize() ends with the
\* spawn error in a step that changes nothing else: no reader thread, no id
\* allocated, nothing registered or written, the running flag as it was; and
\* it has then begun no request.
C19_SpawnErrorFirst ==
    /\ [][(ipc = "start" /\ ipc' = "done")
            => /\ ioutcome' = Out("SpawnError", 0)
               /\ UNCHANGED << clientVars, callerVars, mainVars, readerVars, serverVars,
                               released, dropped, signalled, capabilities >>]_vars
    /\ []((ipc = "done" /\ ioutcome.kind = "SpawnError")
            => (cop[Owner] = "none" /\ cpc[Owner] = "idle" /\ req_id[Owner] = NoId))

\* C19 witness: the first initialize() of a client has ended with the spawn
\* error, and the client is as constructed.
C19_Witness ==
    /\ ipc = "done"
    /\ ioutcome = Out("SpawnError", 0)
    /\ nstarts = 0 /\ process = None /\ ~ running
    /\ request_id = 0 /\ pending_requests = {}
    /\ \A r \in Readers : rpc[r] = "off"

\* C20: the Request a query sends for (L, C), L >= 1, has the position
\* {line: L - 1, character: C}, a line that is not negative, under the LSP
\* method of that query.
C20_ZeroBasedPosition ==
    request # Nothing =>
        /\ request.position.line + 1 = query.line
        /\ request.position.line >= 0
        /\ request.position.character = query.character
        /\ request.method = "textDocument/" \o query.method

\* C20 witness: hover(path, 3, 5) has sent {line: 2, character: 5}.
C20_Witness ==
    /\ query = [method |-> "hover", line |-> 3, character |-> 5]
    /\ request # Nothing
    /\ request.position = [line |-> 2, character |-> 5]

\* The contents of the result hover was given, when it has any.
HasContents == Truthy(hresult) /\ HasKey(hresult, "contents")
Contents == GetKey(hresult, "contents")
\* An item of a contents list that is a string or carries a value.
IsStringBearing(c) == IsStr(c) \/ (IsDict(c) /\ HasKey(c, "value"))
StringOf(c) == IF IsStr(c) THEN c.v ELSE GetKey(c, "value").v

\* C21: hover returns the value of contents when contents is one structure
\* with a value; when contents is a sequence of strings and structures with a
\* value, those strings and values in order with a newline between
\* neighbours; and "No hover info." when the result is null, empty or has no
\* contents.
C21_HoverFlattens ==
    hreturn # Nothing =>
        /\ (~ HasContents) => hreturn = NoHoverInfo
        /\ (HasContents /\ IsDict(Contents) /\ HasKey(Contents, "value"))
              => hreturn = GetKey(Contents, "value")
        /\ (HasContents /\ IsList(Contents)
               /\ \A i \in 1 .. Len(Contents.v) : IsStringBearing(Contents.v[i]))
              => LET items == Contents.v
                     n == Len(items)
                     \* where the text of item i starts in the string returned
                     start[i \in 1 .. n + 1] ==
                         IF i = 1 THEN 1 ELSE start[i - 1] + Len(StringOf(items[i - 1])) + 1 IN
                 /\ IsStr(hreturn)
                 /\ Len(hreturn.v) = IF n = 0 THEN 0 ELSE start[n + 1] - 2
                 /\ \A i \in 1 .. n :
                        /\ SubSeq(hreturn.v, start[i], start[i] + Len(StringOf(items[i])) - 1)
                             = StringOf(items[i])
                        /\ i < n => hreturn.v[start[i + 1] - 1] = "\n"

\* C21 witness: hover has returned "a\nb\nc" for the contents ["a", {value: "b\nc"}].
C21_Witness ==
    /\ hresult = DictValue(<< << "contents",
                                ListValue(<< StrValue(<< "a" >>), Marked(StrValue(<< "b", "\n", "c" >>)) >>) >> >>)
    /\ hreturn = StrValue(<< "a", "\n", "b", "\n", "c" >>)

\* The Response that resolved the call of c: it found c's entry in the
\* pending map, filled c's container and set c's future.
Resolved(c) == released[c] # << >> /\ released[c][1].kind \in { "result", "error" }

\* C22: a send_request call that a Response resolved ends with that Response's
\* outcome: the error raised carries the Response's error payload and no
\* result is returned, or the value returned is the Response's result payload.
C22_ResponseOutcome ==
    \A c \in Callers :
        (cop[c] = "request" /\ cpc[c] = "done" /\ Resolved(c))
          => outcome[c] = OutcomeOf(released[c][1])

\* C23: every send_request call that has begun comes to its end, be it with
\* a result, an error or the timeout.
C23_RequestCompletes ==
    \A c \in 1 .. LifeCallers : (cop[c] = "request") ~> (cpc[c] = "done")

\* A Response carries a result or an error; a message with a method is a
\* request of the server's (with an id) or a notification (without).
IsResponse(m) == m.kind \in { "result", "error" }

\* C24: when a reader has dealt with a message that is not a Response, the
\* pending map, every future and every container are as they were, whatever
\* id the message carries.
C24_NonResponseIgnored ==
    [][\A r \in Readers :
         (Dispatches(r) /\ ~ IsResponse(rmsg[r]))
           => UNCHANGED << pending_requests, future, container >>]_vars

\* The reader thread r finishes lines 104-108 in this step: read(length)
\* returns and the body is parsed.
TakesBody(r) == rpc[r] = "body_read" /\ rpc'[r] # "body_read"

\* C25: the message a reader makes of a frame that has another header line
\* before or after Content-Length is the message the server framed.
C25_OtherHeadersIgnored ==
    [][\A r \in Readers :
         (TakesBody(r) /\ framed # Nothing /\ framed.shape \in { "before", "after" })
           => rmsg'[r] = framed.msg]_vars

\* C26: when the server delivers the whole body of a frame, in one write or
\* in two, the body a reader takes is as long as Content-Length says.
C26_ExactBodyLength ==
    [][\A r \in Readers :
         (/\ TakesBody(r)
          /\ framed # Nothing
          /\ owed = << >> \/ pstate[rstream[r]] = "up"
          /\ Len(sout[rstream[r]]) + Len(owed) >= rlen[r])
           => Len(sout[rstream[r]]) - Len(sout'[rstream[r]]) = rlen[r]]_vars

\* The call of c has written a chunk of its message to some child's stdin.
Written(c) == \E p \in Procs : \E i \in 1 .. Len(sin[p]) : sin[p][i].by = c
\* The thread c writes a chunk of its Request in this step.
WritesRequest(c) ==
    /\ cop[c] = "request"
    /\ cpc[c] \in { "send_header", "send_body" }
    /\ cpc'[c] # cpc[c]
    /\ sin' # sin

\* C27: whenever send_request writes a chunk of its Request, its id is in the
\* pending map or has been resolved from it already; and a message that a
\* reader finds unregistered because its call has not registered yet carries
\* the id of a Request of which nothing has been written.
C27_RegisteredBeforeWritten ==
    /\ [][\A c \in Callers :
            WritesRequest(c) => (Contains(pending_requests, req_id[c]) \/ released[c] # << >>)]_vars
    /\ [][\A r \in Readers :
            (/\ Dispatches(r)
             /\ ~ Contains(pending_requests, rmsg[r].id)
             /\ WhyAbsent(rmsg[r].id) = "early")
              => \A c \in Callers : req_id[c] = rmsg[r].id => ~ Written(c)]_vars

\* C27 witness: a message with the id of a call came before the call had
\* registered and was dropped; the call has since registered and written its
\* Request, and its entry is pending.
C27_Witness ==
    \E c \in Callers :
        /\ << req_id[c], "early" >> \in dropped
        /\ Written(c)
        /\ Contains(pending_requests, req_id[c])
        /\ cpc[c] = "wait"

\* The thread c is in send_request between its registration and its wait.
BeforeWait(c) ==
    cop[c] = "request" /\ cpc[c] \in { "send_check", "send_header", "send_body", "send_flush" }

\* C28: a call whose future a reader has set, be it before the call's wait
\* began, never takes the timeout path: its wait ends by returning the
\* outcome of the message that set it; and no call that ended with
\* TimeoutError had its future set.
C28_NoLostWakeup ==
    /\ [][\A c \in Callers :
            (cpc[c] = "wait" /\ cpc'[c] # "wait" /\ released[c] # << >>)
              => /\ cpc'[c] = "done"
                 /\ outcome'[c] = OutcomeOf(released[c][1])]_vars
    /\ [](\A c \in Callers :
            (BeforeWait(c) \/ cpc[c] = "wait") => (future[c] <=> released[c] # << >>))
    /\ [](\A c \in Callers : outcome[c].kind = "TimeoutError" => released[c] = << >>)

\* C28 witness: the Response to a registered request has been processed and
\* its entry removed while the caller is still inside _send, and another call
\* has returned the result of its own Response.
C28_Witness ==
    \E c1, c2 \in Callers :
        /\ BeforeWait(c1)
        /\ released[c1] = << Msg(req_id[c1], "result") >>
        /\ ~ Contains(pending_requests, req_id[c1])
        /\ c2 # c1
        /\ cpc[c2] = "done" /\ outcome[c2] = Out("result", Payload(req_id[c2]))

\* The read the thread r is blocked in returns nothing in this step: the
\* child has exited and all it wrote has been read.
SeesEndOfInput(r) ==
    /\ \/ rpc[r] = "header_read" /\ ~ rpart[r]
       \/ rpc[r] = "body_read"
    /\ sout[rstream[r]] = << >>
    /\ pstate[rstream[r]] = "exited"
    /\ rpc'[r] # rpc[r]
\* The connection's reader has left its loop at end-of-input.
ReaderGone == \E r \in Readers : rexit[r] = "eof"

\* C29: the step in which a reader sees end-of-input ends its loop and
\* leaves the pending map, the futures, the containers and the outcomes as
\* they were; from then on an entry leaves the pending map only by its own
\* call's timeout, which raises TimeoutError, and no future is set.
C29_EndOfInputLeavesPending ==
    /\ [][\A r \in Readers :
            SeesEndOfInput(r)
              => /\ rpc'[r] = "exited" /\ rexit'[r] = "eof"
                 /\ UNCHANGED << pending_requests, future, container, outcome, released >>]_vars
    /\ [][ReaderGone =>
            /\ future' = future
            /\ \A c \in Callers :
                  (<< req_id[c], c >> \in pending_requests
                     /\ << req_id[c], c >> \notin pending_requests')
                    => (cpc[c] = "timeout_del" /\ outcome'[c] = Out("TimeoutError", 0))]_vars

\* C29 witness: the child took a request and exited, the reader has left its
\* loop at end-of-input, that request has failed with TimeoutError, and
\* another request is still pending, its caller waiting.
C29_Witness ==
    \E c1, c2 \in Callers :
        /\ rexit[1] = "eof" /\ pstate[1] = "exited"
        /\ Written(c1) /\ outcome[c1] = Out("TimeoutError", 0)
        /\ cpc[c2] = "wait" /\ << req_id[c2], c2 >> \in pending_requests /\ ~ future[c2]

\* C30: once stop() has signalled the child that a start() launched, the
\* reader thread which that start() launched leaves its loop.
C30_ReaderExitsAfterStop ==
    \A r \in Readers : (r \in Signalled) ~> (rpc[r] = "exited")

\* C31: the id of a send_request call that has returned or raised is not in
\* the pending map.
C31_PendingOnlyWhileOutstanding ==
    \A c \in Callers :
        (cop[c] = "request" /\ cpc[c] = "done") => ~ Contains(pending_requests, req_id[c])

----------------------------------------------------------------------------
\* The chunks thread c has written to the children's stdin.
ChunksBy(c) == { ch \in UNION { { sin[p][i] : i \in 1 .. Len(sin[p]) } : p \in Procs } : ch.by = c }

\* C32: send_notification allocates no id and registers no waiter: no step of
\* a send_notification call changes the id counter or the pending map, the
\* call owns no pending entry, and what it writes carries no id.
C32_NotificationTouchesNothing ==
    /\ [](\A c \in Callers : cop[c] = "notify" =>
            /\ req_id[c] = NoId
            /\ \A e \in pending_requests : e[2] # c
            /\ \A ch \in ChunksBy(c) : ch.id = NoId)
    /\ [][\A c \in Callers :
            (cop'[c] = "notify" /\ cpc'[c] # cpc[c])
                => UNCHANGED << request_id, pending_requests, lock >>]_vars

\* A notification was written whole and its call returned, while the request
\* of another thread is pending: the counter stands at that one request.
C32_Witness ==
    \E c, d \in Callers :
        /\ cop[c] = "notify" /\ cpc[c] = "done" /\ outcome[c] = Out("returned", 0)
        /\ { ch.part : ch \in ChunksBy(c) } = { "header", "body" }
        /\ cop[d] = "request" /\ << req_id[d], d >> \in pending_requests
        /\ request_id = 1

\* C33: a did_open or did_save call made while the facade is not Ready writes
\* nothing to a server and raises nothing.
C33_NotReadySendsNothing ==
    /\ ChunksBy(Doc) = {}
    /\ outcome[Doc].kind \in { "none", "returned" }

\* C34: a send_request call made on a client that was never started or is
\* stopped writes nothing, raises TimeoutError, leaves its id out of the
\* pending map and the id counter one above its id.
C34_StoppedRequestTimesOut ==
    (cop[1] = "request" /\ cpc[1] = "done") =>
        /\ outcome[1] = Out("TimeoutError", 0)
        /\ ChunksBy(1) = {}
        /\ ~ Contains(pending_requests, req_id[1])
        /\ request_id = req_id[1] + 1

\* LSP is disabled, or LSPManager.start() has failed.
NoHandshake == manager.pc \notin { "new", "initialize" } /\ (~ manager.lsp_enabled \/ manager.failed)

\* C35: when LSP is disabled or LSPManager.start() failed, the tools list is
\* empty and a query tool goes no further than its guard: it returns
\* "LSP not running." and enters neither _ensure_open nor the query.
C35_ToolsNeedHandshake ==
    NoHandshake =>
        /\ manager.tools = {}
        /\ manager.pc \notin { "ensure_open", "query" }
        /\ manager.pc = "returned" => manager.returned = NotRunning

\* C36: the lock is held only inside the three with-blocks of send_request
\* and the one of _read_loop, never by a thread that waits for its reply or
\* is in a read or a write; and a thread that goes for the lock gets it.
C36_LockNeverHeldBlocked ==
    /\ [](\A c \in Callers :
            lock = CallerTid(c) => cpc[c] \in { "alloc", "register", "timeout_del" })
    /\ [](\A r \in Readers : lock = ReaderTid(r) => rpc[r] = "resolve")
    /\ \A c \in Callers :
          (cpc[c] \in { "alloc_lock", "register_lock", "timeout_lock" }) ~> (lock = CallerTid(c))
    /\ \A r \in Readers : (rpc[r] = "resolve_lock") ~> (lock = ReaderTid(r))

\* The reader holds the lock while a caller whose wait has timed out goes for it.
C36_Witness ==
    \E r \in Readers, c \in Callers :
        lock = ReaderTid(r) /\ rpc[r] = "resolve" /\ cpc[c] = "timeout_lock"

\* A thread other than the control thread is about to read self.process or
\* self.running: a caller in _send (lines 78-82), a reader at the loop test
\* (line 87) or evaluating self.process.stdout (lines 90, 101, 104).
ReadsUnlocked ==
    \/ \E c \in Callers : cpc[c] \in { "send_check", "send_header", "send_body", "send_flush" }
    \/ \E r \in Readers : rpc[r] \in { "test", "header_open", "blank_open", "body_open" }

\* C37: the id counter and the pending map change only in a step of the
\* thread holding the lock, and nothing else is written by one thread while
\* another is about to read it: self.process and self.running do not change
\* under a caller in _send or a reader.
C37_OnlyLockedStateShared ==
    [][ /\ (request_id' # request_id \/ pending_requests' # pending_requests) => lock # 0
        /\ (process' # process \/ running' # running) => ~ ReadsUnlocked ]_vars

\* C38: the container of a call whose event is set holds exactly one entry,
\* under "result" or under "error", whatever the Response's shape.
C38_ExactlyOneOutcome ==
    \A c \in Callers :
        future[c] => /\ Cardinality(container[c]) = 1
                     /\ \A e \in container[c] : e[1] \in { "result", "error" }

\* One call was resolved by a frame carrying both fields and holds the error
\* alone; another by a null result and holds "result" with None.
C38_Witness ==
    \E c, d \in Callers :
        /\ future[c] /\ released[c] = << Both(req_id[c]) >>
        /\ container[c] = { << "error", Payload(req_id[c]) >> }
        /\ future[d] /\ released[d] = << NullResult(req_id[d]) >>
        /\ container[d] = { << "result", None >> }

====
